---- MODULE Spec2Model ----
(***************************************************************************)
(* Model of the batch coordinator of the Flask ComfyUI batch processor     *)
(* (src/app.py): FlaskComfyUIApp.process_batch_with_live_updates, the      *)
(* per-item routine process_single_image_with_socketio_updates, the        *)
(* streaming monitor started by monitor_progress_websocket and the /stop   *)
(* route.                                                                  *)
(*                                                                         *)
(* One batch of NumItems items is run.  The batch coroutine and the item   *)
(* routines share one asyncio event loop: an item routine advances only    *)
(* while the batch coroutine is suspended in `await task_future`, one      *)
(* action per stretch of code between two awaits.  The worker is opaque:   *)
(* the answer to every request is chosen nondeterministically.  Every      *)
(* streaming monitor runs on its own thread, and the /stop route on a      *)
(* request thread, so their actions interleave with everything else.       *)
(***************************************************************************)
EXTENDS Integers, Sequences, FiniteSets, TLC

\* Number of items of the submitted batch (image_info_list).
NumItems == 2
\* Largest pool size detect_cuda_devices may report.
MaxGpus == 2
\* Items of the batch under which the progress monitor is examined.
MonitorBatch == 1
\* Last millisecond of the clock that stamps preview files.
MaxClock == 1
\* Writes made to the output directory.
MaxWrites == 3
\* Images a worker lists under one output node.
MaxImages == 1
\* Seconds for which a polling loop is followed.
MaxPollTime == 610
\* Job documents posted from one template.
MaxPayloads == 2

Items == 0 .. (NumItems - 1)

VARIABLES
    orchestrator,       \* "none" | "ready"           (self.orchestrator)
    num_gpus,           \* pool size                   (orchestrator.num_gpus)
    stop_processing,    \* the stop flag               (self.stop_processing)
    processing_status,  \* item -> status record       (self.processing_status)
    results_cache,      \* ids with a cached result    (self.results_cache)
    ws_connections,     \* ids with a registered ws    (self.ws_connections)
    wsThread,           \* item -> state of its monitor thread
    bpc,                \* position of the batch coroutine
    next_i,             \* index of the dispatch loop
    ntasks,             \* len(tasks)
    completed_count,    \* completed_count
    doneQueue,          \* as_completed's queue of finished tasks
    all_results,        \* all_results
    retval,             \* value returned by the batch call (when bpc = "returned")
    ipc,                \* item -> position of its routine
    stop_seen,          \* history: a flag check of the completion loop found the flag set
    trace,              \* history: item -> sequence of the values its status has had
    io,                 \* history: item -> worker requests made and answers received
    batch_size,         \* len(image_info_list)
    preview_images,     \* item -> preview pointer      (self.preview_images)
    temp_files,         \* preview files in temp_input_dir, as <<item, timestamp>>
    now,                \* int(time.time()*1000)
    removed,            \* history: item -> entries of it removed from ws_connections
    raised,             \* history: a removal from ws_connections raised
    disk,               \* files of the output directory, as [name, content]
    writes,             \* number of writes made to the output directory
    job,                \* the download loop of a completed item
    output_files,       \* output_files of that loop
    poller,             \* a polling loop and the time it has been running
    ws_client,          \* item -> clientId of its monitor's URL, 0 for none
    post_client,        \* item -> client_id of its posted payload, 0 for none
    workflow,           \* the job template                (self.workflow)
    payloads,           \* history: the job documents posted to the workers
    message,            \* history: the last binary message a monitor handled
    current_workflow_data,  \* WorkflowManager: the template, nodes in file order
    node_mappings,      \* WorkflowManager: role -> node id
    workflow_copy,      \* the job being instantiated by the WorkflowManager
    wm_raised,          \* the exception the WorkflowManager raised, "" if none
    wm_pc,              \* the position of the WorkflowManager's caller
    upload_queue,       \* the paths of the uploaded files waiting for /process
    reprocess_queue,    \* image id -> the path of the copy to process again
    input_files,        \* the paths that exist in the temporary input directory
    result_input_path,  \* the results cache: image id -> the result's input_path
    running,            \* the batch started by /process or /reprocess
    ids_used,           \* the number of item ids generated so far
    marked,             \* history: the last call of mark_for_reprocessing
    prog_status,        \* one item's status, with its progress values
    progress,           \* that item's progress
    prog_pc,            \* the position of that item's routine in its poll loop
    last_poll,          \* history: what the last poll of the routine returned
    cli_pc,             \* command line batch: image -> position of its task
    semaphore,          \* command line batch: the value of the semaphore
    max_concurrent,     \* command line batch: the limit of the call
    call_pc,            \* concurrent batches: call -> position of the batch call
    task_pc,            \* concurrent batches: call -> position of its item's routine
    shared_stop,        \* concurrent batches: self.stop_processing
    shared_ws,          \* concurrent batches: the keys of self.ws_connections
    ws_state,           \* concurrent batches: call -> its item's connection
    shared_previews,    \* concurrent batches: items with a preview file
    stop_pending,       \* history: calls running at a stop request, not yet at a check
    last_check,         \* history: the last check of the flag by a call
    actor               \* history: the call that made the last step, 0 for a request

vars == << orchestrator, num_gpus, stop_processing, processing_status,
           results_cache, ws_connections, wsThread, bpc, next_i, ntasks,
           completed_count, doneQueue, all_results, retval, ipc, stop_seen,
           trace, io, batch_size, preview_images, temp_files, now, removed,
           raised, disk, writes, job, output_files, poller, ws_client,
           post_client, workflow, payloads, message, current_workflow_data,
          node_mappings, workflow_copy, wm_raised, wm_pc, upload_queue,
          reprocess_queue, input_files, result_input_path, running, ids_used,
          marked, prog_status, progress, prog_pc, last_poll, cli_pc, semaphore,
          max_concurrent, call_pc, task_pc, shared_stop, shared_ws, ws_state,
          shared_previews, stop_pending, last_check, actor >>

\* The output directory and the polling clock, which the batch model abstracts.
outVars == << disk, writes, job, output_files, poller >>
\* The job template and the documents made from it.
tmplVars == << workflow, payloads >>
\* What the batch model abstracts besides the output directory.
\* The binary messages of the monitors.
frameVars == << message >>
\* The WorkflowManager.
labelVars == << current_workflow_data, node_mappings, workflow_copy, wm_raised, wm_pc >>
\* Marking results and processing them again.
reprVars == << upload_queue, reprocess_queue, input_files, result_input_path,
               running, ids_used, marked >>
\* The progress of an item.
progVars == << prog_status, progress, prog_pc, last_poll >>
\* The batch of the command line tool.
cliVars == << cli_pc, semaphore, max_concurrent >>
\* Batch calls that run at the same time.
twoVars == << call_pc, task_pc, shared_stop, shared_ws, ws_state, shared_previews,
              stop_pending, last_check, actor >>
extraVars == << progVars, cliVars, twoVars >>
laterVars == << tmplVars, frameVars, labelVars, reprVars, extraVars >>
sideVars == << outVars, laterVars >>
\* The state of the batch engine and of its monitors.
batchVars == << orchestrator, num_gpus, stop_processing, processing_status,
                results_cache, ws_connections, wsThread, bpc, next_i, ntasks,
                completed_count, doneQueue, all_results, retval, ipc,
                stop_seen, trace, io, batch_size, preview_images, temp_files,
                now, removed, raised, ws_client, post_client >>
\* The client identifiers of the monitors and of the posted jobs.
clientVars == << ws_client, post_client >>
\* What the cleanup of a connection touches besides the connection itself.
monCleanup == << preview_images, temp_files, removed, raised >>

\* No download loop and no polling loop under observation.
NoJob == [state |-> "idle"]
NoPoller == [app |-> "none"]

\* A missing entry of the status map.
NoStatus == [status |-> "none", gpu |-> -1, error |-> ""]

\* Error messages written to the status record.
MsgInit == "Orchestrator initialization failed"
MsgHealth == "ComfyUI server is not responding"
MsgUpload == "Upload failed via API"
MsgQueue == "Failed to queue prompt"
MsgException == "str(e)"

\* gpu_id = i % self.orchestrator.num_gpus
AssignWorkerOffByOne(i, P) == (i + 1) % P
AssignWorker(i, P) == i % P

\* self.processing_status[image_id]['status'] = s, with the history of values.
SetStatus(ps, i, s) == [ps EXCEPT ![i].status = s]
Log(tr, i, s) == IF tr[i] # << >> /\ tr[i][Len(tr[i])] = s
                 THEN tr
                 ELSE [tr EXCEPT ![i] = Append(@, s)]
Did(h, i, what) == [h EXCEPT ![i] = @ \cup what]

\* ws.close() on every connection of S: the monitor thread of a connection
\* that is still running is told to stop; it ends with on_close.
CloseAll(S) == [i \in Items |->
                  IF i \in S /\ wsThread[i] = "running" THEN "closing"
                  ELSE wsThread[i]]

\* The items of the submitted list.
Batch == 0 .. (batch_size - 1)

\* A preview pointer: none, a file of temp_input_dir named by the item and
\* the timestamp ts, or a URL of the worker.
NoPreview == [kind |-> "none", ts |-> 0]
FilePreview(t) == [kind |-> "file", ts |-> t]
UrlPreview == [kind |-> "url", ts |-> 0]

\* A mutant of PopRaises: del self.ws_connections[image_id], which raises
\* KeyError when the item has no entry.
DelRaises(conns, i) == i \notin conns
\* self.ws_connections.pop(image_id, None): whether the removal raises.
PopRaises(conns, i) == FALSE

\* ws = self.ws_connections.pop(image_id, None); if ws: ws.close()
PopAndClose(i) ==
    /\ ws_connections' = ws_connections \ {i}
    /\ wsThread' = CloseAll(ws_connections \cap {i})
    /\ removed' = [removed EXCEPT ![i] = @ + (IF i \in ws_connections THEN 1 ELSE 0)]
    /\ raised' = (raised \/ PopRaises(ws_connections, i))

\* preview = self.preview_images.pop(image_id, None); os.remove(preview) if
\* it is a path of temp_input_dir.
PopPreview(i) ==
    /\ preview_images' = [preview_images EXCEPT ![i] = NoPreview]
    /\ temp_files' = IF preview_images[i].kind = "file"
                     THEN temp_files \ {<<i, preview_images[i].ts>>}
                     ELSE temp_files

\* `return x` of an item routine: the task is done, as_completed queues it.
Finish(i, ok) ==
    /\ ipc' = [ipc EXCEPT ![i] = "finished"]
    /\ doneQueue' = Append(doneQueue, [id |-> i, ok |-> ok])

(***************************************************************************)
(* The job template: a document of nodes, here node id -> the node's       *)
(* "inputs".  The well-known nodes are "1" (LoadImage), "10" and "15" (the  *)
(* positive and the negative prompt), "12" (the main sampler) and "46" (the *)
(* detailer); "20" stands for the nodes that play no role.                  *)
(***************************************************************************)
RoleNodes == {"1", "10", "15", "12", "46"}

TemplateNode(n) ==
    CASE n = "1"  -> [image |-> "example.png"]
      [] n = "10" -> [text |-> "a photo"]
      [] n = "15" -> [text |-> "blurry"]
      [] n = "12" -> [noise_seed |-> 7, steps |-> 20]
      [] n = "46" -> [seed |-> 7, steps |-> 10]
      [] OTHER    -> [filename_prefix |-> "ComfyUI"]

Template(present) == [n \in present \cup {"20"} |-> TemplateNode(n)]

\* The documents json.load(f) may return: any of the well-known nodes may be
\* missing.
Templates == {Template(present) : present \in SUBSET RoleNodes}

InitBatch ==
    /\ orchestrator \in {"none", "ready"}
    /\ num_gpus \in 1 .. MaxGpus
    /\ stop_processing = FALSE
    /\ processing_status = [i \in Items |-> NoStatus]
    /\ results_cache = {}
    /\ ws_connections = {}
    /\ wsThread = [i \in Items |-> "none"]
    /\ bpc = "idle"
    /\ next_i = 0
    /\ ntasks = 0
    /\ completed_count = 0
    /\ doneQueue = << >>
    /\ all_results = << >>
    /\ retval = << >>
    /\ ipc = [i \in Items |-> "none"]
    /\ stop_seen = FALSE
    /\ trace = [i \in Items |-> << >>]
    /\ io = [i \in Items |-> {}]
    /\ batch_size \in 1 .. NumItems
    /\ preview_images = [i \in Items |-> NoPreview]
    /\ temp_files = {}
    /\ now = 0
    /\ removed = [i \in Items |-> 0]
    /\ raised = FALSE
    /\ disk = {}
    /\ writes = 0
    /\ job = NoJob
    /\ output_files = << >>
    /\ poller = NoPoller
    /\ ws_client = [i \in Items |-> 0]
    /\ post_client = [i \in Items |-> 0]

\* The batch engine runs with the template that has every well-known node.
InitTemplate ==
    /\ workflow = Template(RoleNodes)
    /\ payloads = {}

\* No binary message handled yet.
NoMessage == [item |-> -1, data |-> << >>]
InitFrames == message = NoMessage

\* A value of node_mappings[role]: the key is absent, or holds None, a node
\* id, or a list of node ids.
Absent == [kind |-> "absent", id |-> "", list |-> << >>]
None == [kind |-> "None", id |-> "", list |-> << >>]
NodeId(n) == [kind |-> "id", id |-> n, list |-> << >>]
NodeList(l) == [kind |-> "list", id |-> "", list |-> l]
NoMappings == [input_image |-> Absent, positive_prompt |-> Absent, negative_prompt |-> Absent]

\* WorkflowManager.__init__ with no workflow file found.
InitManager ==
    /\ current_workflow_data = << >>
    /\ node_mappings = NoMappings
    /\ workflow_copy = << >>
    /\ wm_raised = ""
    /\ wm_pc = "init"

\* No batch started by a request.
NoBatch == [active |-> FALSE, items |-> {}, pending |-> {}, cleanup |-> {}]
NotMarked == [image_id |-> -1, cached |-> FALSE, status |-> ""]
\* Nothing uploaded, nothing marked, no result.
InitRequests ==
    /\ upload_queue = {}
    /\ reprocess_queue = << >>
    /\ input_files = {}
    /\ result_input_path = << >>
    /\ running = NoBatch
    /\ ids_used = 0
    /\ marked = NotMarked

\* No poll made yet.
NoPoll == [kind |-> "none", current |-> 0, total |-> 0]
\* The item is not being processed.
InitProgress ==
    /\ prog_status = "none"
    /\ progress = 0
    /\ prog_pc = "none"
    /\ last_poll = NoPoll

\* process_batch_async is not called.
InitCli ==
    /\ cli_pc = << >>
    /\ semaphore = 0
    /\ max_concurrent = 0

\* No batch call, no check of the flag yet.
NoCheck == [call |-> 0, pending |-> FALSE, seen |-> FALSE]
InitCalls ==
    /\ call_pc = << >>
    /\ task_pc = << >>
    /\ shared_stop = FALSE
    /\ shared_ws = {}
    /\ ws_state = << >>
    /\ shared_previews = {}
    /\ stop_pending = {}
    /\ last_check = NoCheck
    /\ actor = 0

InitExtra ==
    /\ InitProgress
    /\ InitCli
    /\ InitCalls

Init ==
    /\ InitBatch
    /\ InitTemplate
    /\ InitFrames
    /\ InitManager
    /\ InitRequests
    /\ InitExtra

\* The /stop route.
RequestStop ==
    /\ ~stop_processing
    /\ stop_processing' = TRUE
    /\ UNCHANGED << batch_size, now, sideVars, clientVars >>
    /\ UNCHANGED monCleanup
    /\ UNCHANGED << orchestrator, num_gpus, processing_status, results_cache,
                    ws_connections, wsThread, bpc, next_i, ntasks,
                    completed_count, doneQueue, all_results, retval, ipc,
                    stop_seen, trace, io >>

\* Entry of process_batch_with_live_updates with the pool available or
\* successfully initialized.
StartBatch ==
    /\ bpc = "idle"
    /\ stop_processing' = FALSE
    /\ orchestrator' = "ready"
    /\ bpc' = "dispatch"
    /\ UNCHANGED << batch_size, now, sideVars, clientVars >>
    /\ UNCHANGED monCleanup
    /\ UNCHANGED << num_gpus, processing_status, results_cache, ws_connections,
                    wsThread, next_i, ntasks, completed_count, doneQueue,
                    all_results, retval, ipc, stop_seen, trace, io >>

\* A mutant of StartBatchInitFails: the items are failed but the call goes on
\* to dispatch them.
StartBatchInitFailsGoesOn ==
    /\ bpc = "idle"
    /\ orchestrator = "none"
    /\ stop_processing' = FALSE
    /\ processing_status' = [i \in Items |->
           IF i < batch_size
           THEN [status |-> "failed", gpu |-> -1, error |-> MsgInit]
           ELSE processing_status[i]]
    /\ trace' = [i \in Items |-> IF i < batch_size THEN << "failed" >> ELSE trace[i]]
    /\ bpc' = "dispatch"
    /\ UNCHANGED << batch_size, now, sideVars, clientVars >>
    /\ UNCHANGED monCleanup
    /\ UNCHANGED << orchestrator, num_gpus, results_cache, ws_connections,
                    wsThread, next_i, ntasks, completed_count, doneQueue,
                    all_results, retval, ipc, stop_seen, io >>

\* Entry of process_batch_with_live_updates when initialize_orchestrator raises.
StartBatchInitFails ==
    /\ bpc = "idle"
    /\ orchestrator = "none"
    /\ stop_processing' = FALSE
    /\ processing_status' = [i \in Items |->
           IF i < batch_size
           THEN [status |-> "failed", gpu |-> -1, error |-> MsgInit]
           ELSE processing_status[i]]
    /\ trace' = [i \in Items |-> IF i < batch_size THEN << "failed" >> ELSE trace[i]]
    /\ retval' = << >>
    /\ bpc' = "returned"
    /\ UNCHANGED << batch_size, now, sideVars, clientVars >>
    /\ UNCHANGED monCleanup
    /\ UNCHANGED << orchestrator, num_gpus, results_cache, ws_connections,
                    wsThread, next_i, ntasks, completed_count, doneQueue,
                    all_results, ipc, stop_seen, io >>

\* One iteration of the dispatch loop.
Dispatch ==
    /\ bpc = "dispatch"
    /\ next_i < batch_size
    /\ ~stop_processing
    /\ processing_status' = [processing_status EXCEPT ![next_i] =
           [status |-> "queued", gpu |-> AssignWorker(next_i, num_gpus), error |-> ""]]
    /\ trace' = Log(trace, next_i, "queued")
    /\ ipc' = [ipc EXCEPT ![next_i] = "coro"]
    /\ next_i' = next_i + 1
    /\ UNCHANGED << batch_size, now, sideVars, clientVars >>
    /\ UNCHANGED monCleanup
    /\ UNCHANGED << orchestrator, num_gpus, stop_processing, results_cache,
                    ws_connections, wsThread, bpc, ntasks, completed_count,
                    doneQueue, all_results, retval, stop_seen, io >>

\* End of the dispatch loop (list exhausted, or break on the stop flag);
\* asyncio.as_completed(tasks) wraps every coroutine of tasks in a task.
DispatchEnd ==
    /\ bpc = "dispatch"
    /\ next_i = batch_size \/ stop_processing
    /\ ntasks' = next_i
    /\ bpc' = "check"
    /\ UNCHANGED << batch_size, now, sideVars, clientVars >>
    /\ UNCHANGED monCleanup
    /\ UNCHANGED << orchestrator, num_gpus, stop_processing, processing_status,
                    results_cache, ws_connections, wsThread, next_i,
                    completed_count, doneQueue, all_results, retval, ipc,
                    stop_seen, trace, io >>

\* A mutant of LoopNext: the iteration goes on without looking at the flag.
LoopNextIgnoresFlag ==
    /\ bpc = "check"
    /\ completed_count < ntasks
    /\ bpc' = "await"
    /\ UNCHANGED << batch_size, now, sideVars, clientVars >>
    /\ UNCHANGED monCleanup
    /\ UNCHANGED << orchestrator, num_gpus, stop_processing, processing_status,
                    results_cache, ws_connections, wsThread, next_i, ntasks,
                    completed_count, doneQueue, all_results, retval, ipc,
                    stop_seen, trace, io >>

\* Top of an iteration of the completion loop with the flag clear.
LoopNext ==
    /\ bpc = "check"
    /\ completed_count < ntasks
    /\ ~stop_processing
    /\ bpc' = "await"
    /\ UNCHANGED << batch_size, now, sideVars, clientVars >>
    /\ UNCHANGED monCleanup
    /\ UNCHANGED << orchestrator, num_gpus, stop_processing, processing_status,
                    results_cache, ws_connections, wsThread, next_i, ntasks,
                    completed_count, doneQueue, all_results, retval, ipc,
                    stop_seen, trace, io >>

\* A mutant of LoopStop: the flag is seen but the loop goes on awaiting.
LoopStopGoesOn ==
    /\ bpc = "check"
    /\ completed_count < ntasks
    /\ stop_processing
    /\ stop_seen' = TRUE
    /\ bpc' = "await"
    /\ UNCHANGED << batch_size, now, sideVars, clientVars >>
    /\ UNCHANGED monCleanup
    /\ UNCHANGED << orchestrator, num_gpus, stop_processing, processing_status,
                    results_cache, ws_connections, wsThread, next_i, ntasks,
                    completed_count, doneQueue, all_results, retval, ipc,
                    trace, io >>

\* Top of an iteration with the flag set: the cancellation branch.  tasks
\* holds coroutine objects, so the first `t.done()` raises AttributeError
\* outside the try; the exception leaves the batch call, and the caller
\* closes the event loop with the remaining tasks still pending.
LoopStop ==
    /\ bpc = "check"
    /\ completed_count < ntasks
    /\ stop_processing
    /\ stop_seen' = TRUE
    /\ bpc' = "raised"
    /\ UNCHANGED << batch_size, now, sideVars, clientVars >>
    /\ UNCHANGED monCleanup
    /\ UNCHANGED << orchestrator, num_gpus, stop_processing, processing_status,
                    results_cache, ws_connections, wsThread, next_i, ntasks,
                    completed_count, doneQueue, all_results, retval, ipc,
                    trace, io >>

\* result_item = await task_future, and the bookkeeping that follows.
AwaitNext ==
    /\ bpc = "await"
    /\ doneQueue # << >>
    /\ LET h == Head(doneQueue) IN
         /\ all_results' = IF h.ok THEN Append(all_results, h.id) ELSE all_results
         /\ results_cache' = IF h.ok THEN results_cache \cup {h.id} ELSE results_cache
    /\ doneQueue' = Tail(doneQueue)
    /\ completed_count' = completed_count + 1
    /\ bpc' = "check"
    /\ UNCHANGED << batch_size, now, sideVars, clientVars >>
    /\ UNCHANGED monCleanup
    /\ UNCHANGED << orchestrator, num_gpus, stop_processing, processing_status,
                    ws_connections, wsThread, next_i, ntasks, retval, ipc,
                    stop_seen, trace, io >>

\* The completion loop is exhausted: final cleanup and `return all_results`.
FinalCleanup ==
    /\ bpc = "check"
    /\ completed_count = ntasks
    /\ wsThread' = CloseAll(ws_connections)
    /\ ws_connections' = {}
    /\ removed' = [i \in Items |-> removed[i] + (IF i \in ws_connections THEN 1 ELSE 0)]
    /\ temp_files' = temp_files \ {<<i, preview_images[i].ts>> :
                                      i \in {j \in Items : preview_images[j].kind = "file"}}
    /\ preview_images' = [i \in Items |-> NoPreview]
    /\ UNCHANGED raised
    /\ retval' = all_results
    /\ bpc' = "returned"
    /\ UNCHANGED << batch_size, now, sideVars, clientVars >>
    /\ UNCHANGED << orchestrator, num_gpus, stop_processing, processing_status,
                    results_cache, next_i, ntasks, completed_count, doneQueue,
                    all_results, ipc, stop_seen, trace, io >>

(***************************************************************************)
(* process_single_image_with_socketio_updates: one action per stretch of   *)
(* code between two awaits, the worker's answer chosen by the action.      *)
(***************************************************************************)
Running(i) == bpc = "await" /\ i \in Items

\* The task starts and sends the health probe GET /system_stats.
StartTask(i) ==
    /\ Running(i)
    /\ ipc[i] = "coro"
    /\ ipc' = [ipc EXCEPT ![i] = "health"]
    /\ io' = Did(io, i, {"GET /system_stats"})
    /\ UNCHANGED << batch_size, now, sideVars, clientVars >>
    /\ UNCHANGED monCleanup
    /\ UNCHANGED << orchestrator, num_gpus, stop_processing, processing_status,
                    results_cache, ws_connections, wsThread, bpc, next_i,
                    ntasks, completed_count, doneQueue, all_results, retval,
                    stop_seen, trace >>

\* The probe answers 200: status 'uploading', then the upload is sent.
HealthOk(i) ==
    /\ Running(i)
    /\ ipc[i] = "health"
    /\ processing_status' = SetStatus(processing_status, i, "uploading")
    /\ trace' = Log(trace, i, "uploading")
    /\ io' = Did(io, i, {"health ok", "POST /upload/image"})
    /\ ipc' = [ipc EXCEPT ![i] = "upload"]
    /\ UNCHANGED << batch_size, now, sideVars, clientVars >>
    /\ UNCHANGED monCleanup
    /\ UNCHANGED << orchestrator, num_gpus, stop_processing, results_cache,
                    ws_connections, wsThread, bpc, next_i, ntasks,
                    completed_count, doneQueue, all_results, retval, stop_seen >>

\* A mutant of HealthFail: the failure is recorded but the routine goes on to upload.
HealthFailContinues(i) ==
    /\ Running(i)
    /\ ipc[i] = "health"
    /\ processing_status' = [processing_status EXCEPT ![i].status = "failed",
                                                      ![i].error = MsgHealth]
    /\ trace' = Log(trace, i, "failed")
    /\ io' = Did(io, i, {"health failed", "POST /upload/image"})
    /\ ipc' = [ipc EXCEPT ![i] = "upload"]
    /\ UNCHANGED << batch_size, now, sideVars, clientVars >>
    /\ UNCHANGED monCleanup
    /\ UNCHANGED << orchestrator, num_gpus, stop_processing, results_cache,
                    ws_connections, wsThread, bpc, next_i, ntasks,
                    completed_count, doneQueue, all_results, retval, stop_seen >>

\* The probe fails (transport error or status other than 200): return None.
HealthFail(i) ==
    /\ Running(i)
    /\ ipc[i] = "health"
    /\ processing_status' = [processing_status EXCEPT ![i].status = "failed",
                                                      ![i].error = MsgHealth]
    /\ trace' = Log(trace, i, "failed")
    /\ io' = Did(io, i, {"health failed"})
    /\ Finish(i, FALSE)
    /\ UNCHANGED << batch_size, now, sideVars, clientVars >>
    /\ UNCHANGED monCleanup
    /\ UNCHANGED << orchestrator, num_gpus, stop_processing, results_cache,
                    ws_connections, wsThread, bpc, next_i, ntasks,
                    completed_count, all_results, retval, stop_seen >>

\* str(uuid.uuid4()): an identifier that no other call returns; the call is
\* named by the item whose routine makes it and its number in that routine.
uuid4(i, call) == 2 * i + call

\* A mutant of UploadOk: the monitor and the payload get identifiers of their own.
UploadOkTwoIds(i) ==
    /\ Running(i)
    /\ ipc[i] = "upload"
    /\ processing_status' = SetStatus(processing_status, i, "processing")
    /\ trace' = Log(trace, i, "processing")
    /\ ws_connections' = ws_connections \cup {i}
    /\ wsThread' = [wsThread EXCEPT ![i] = "running"]
    /\ LET client_id == uuid4(i, 1)
       IN /\ ws_client' = [ws_client EXCEPT ![i] = client_id]
          /\ post_client' = [post_client EXCEPT ![i] = uuid4(i, 2)]
    /\ io' = Did(io, i, {"upload ok", "ws open", "POST /prompt"})
    /\ ipc' = [ipc EXCEPT ![i] = "post"]
    /\ UNCHANGED << batch_size, now, sideVars >>
    /\ UNCHANGED monCleanup
    /\ UNCHANGED << orchestrator, num_gpus, stop_processing, results_cache,
                    bpc, next_i, ntasks, completed_count, doneQueue,
                    all_results, retval, stop_seen >>

\* upload_image_async returns the upload record: the job document is built,
\* status 'processing', the monitor is started (its connection registered,
\* its thread started) and the job is posted.
UploadOk(i) ==
    /\ Running(i)
    /\ ipc[i] = "upload"
    /\ processing_status' = SetStatus(processing_status, i, "processing")
    /\ trace' = Log(trace, i, "processing")
    /\ ws_connections' = ws_connections \cup {i}
    /\ wsThread' = [wsThread EXCEPT ![i] = "running"]
    /\ LET client_id == uuid4(i, 1)
       IN /\ ws_client' = [ws_client EXCEPT ![i] = client_id]
          /\ post_client' = [post_client EXCEPT ![i] = client_id]
    /\ io' = Did(io, i, {"upload ok", "ws open", "POST /prompt"})
    /\ ipc' = [ipc EXCEPT ![i] = "post"]
    /\ UNCHANGED << batch_size, now, sideVars >>
    /\ UNCHANGED monCleanup
    /\ UNCHANGED << orchestrator, num_gpus, stop_processing, results_cache,
                    bpc, next_i, ntasks, completed_count, doneQueue,
                    all_results, retval, stop_seen >>

\* A mutant of UploadFail: the failure is recorded but the job is posted.
UploadFailContinues(i) ==
    /\ Running(i)
    /\ ipc[i] = "upload"
    /\ processing_status' = [processing_status EXCEPT ![i].status = "failed",
                                                      ![i].error = MsgUpload]
    /\ trace' = Log(trace, i, "failed")
    /\ io' = Did(io, i, {"upload failed", "POST /prompt"})
    /\ ipc' = [ipc EXCEPT ![i] = "post"]
    /\ UNCHANGED << batch_size, now, sideVars, clientVars >>
    /\ UNCHANGED monCleanup
    /\ UNCHANGED << orchestrator, num_gpus, stop_processing, results_cache,
                    ws_connections, wsThread, bpc, next_i, ntasks,
                    completed_count, doneQueue, all_results, retval, stop_seen >>

\* upload_image_async returns None (file missing, status other than 200,
\* transport exception): return None.
UploadFail(i) ==
    /\ Running(i)
    /\ ipc[i] = "upload"
    /\ processing_status' = [processing_status EXCEPT ![i].status = "failed",
                                                      ![i].error = MsgUpload]
    /\ trace' = Log(trace, i, "failed")
    /\ io' = Did(io, i, {"upload failed"})
    /\ PopAndClose(i)
    /\ UNCHANGED << preview_images, temp_files >>
    /\ Finish(i, FALSE)
    /\ UNCHANGED << batch_size, now, sideVars, clientVars >>
    /\ UNCHANGED << orchestrator, num_gpus, stop_processing, results_cache,
                    bpc, next_i, ntasks, completed_count, all_results, retval,
                    stop_seen >>

\* The worker accepts the job (a prompt_id is returned); the queue check
\* that follows changes no state, then the first poll is sent.
PostAccepted(i) ==
    /\ Running(i)
    /\ ipc[i] = "post"
    /\ io' = Did(io, i, {"prompt accepted", "GET /history"})
    /\ ipc' = [ipc EXCEPT ![i] = "poll"]
    /\ UNCHANGED << batch_size, now, sideVars, clientVars >>
    /\ UNCHANGED monCleanup
    /\ UNCHANGED << orchestrator, num_gpus, stop_processing, processing_status,
                    results_cache, ws_connections, wsThread, bpc, next_i,
                    ntasks, completed_count, doneQueue, all_results, retval,
                    stop_seen, trace >>

\* A mutant of PostRejected: the rejection is recorded with the status of the
\* exception path and without a message.
PostRejectedAsError(i) ==
    /\ Running(i)
    /\ ipc[i] = "post"
    /\ processing_status' = SetStatus(processing_status, i, "error")
    /\ trace' = Log(trace, i, "error")
    /\ io' = Did(io, i, {"prompt rejected"})
    /\ PopAndClose(i)
    /\ UNCHANGED << preview_images, temp_files >>
    /\ Finish(i, FALSE)
    /\ UNCHANGED << batch_size, now, sideVars, clientVars >>
    /\ UNCHANGED << orchestrator, num_gpus, stop_processing, results_cache,
                    bpc, next_i, ntasks, completed_count, all_results, retval,
                    stop_seen >>

\* The answer to POST /prompt carries no prompt_id: return None.
PostRejected(i) ==
    /\ Running(i)
    /\ ipc[i] = "post"
    /\ processing_status' = [processing_status EXCEPT ![i].status = "failed",
                                                      ![i].error = MsgQueue]
    /\ trace' = Log(trace, i, "failed")
    /\ io' = Did(io, i, {"prompt rejected"})
    /\ PopAndClose(i)
    /\ UNCHANGED << preview_images, temp_files >>
    /\ Finish(i, FALSE)
    /\ UNCHANGED << batch_size, now, sideVars, clientVars >>
    /\ UNCHANGED << orchestrator, num_gpus, stop_processing, results_cache,
                    bpc, next_i, ntasks, completed_count, all_results, retval,
                    stop_seen >>

\* The handler `except Exception` of the routine: status 'error', the
\* message of the exception, connection popped and closed, return None.
Except(i, what) ==
    /\ processing_status' = [processing_status EXCEPT ![i].status = "error",
                                                      ![i].error = MsgException]
    /\ trace' = Log(trace, i, "error")
    /\ io' = Did(io, i, {what})
    /\ PopAndClose(i)
    /\ PopPreview(i)
    /\ Finish(i, FALSE)
    /\ UNCHANGED << batch_size, now, sideVars, clientVars >>
    /\ UNCHANGED << orchestrator, num_gpus, stop_processing, results_cache,
                    bpc, next_i, ntasks, completed_count, all_results, retval,
                    stop_seen >>

\* A mutant of PostException: the exception leaves the routine and the batch call.
PostExceptionAborts(i) ==
    /\ Running(i)
    /\ ipc[i] = "post"
    /\ bpc' = "raised"
    /\ ipc' = [ipc EXCEPT ![i] = "finished"]
    /\ io' = Did(io, i, {"prompt exception"})
    /\ UNCHANGED << batch_size, now, sideVars, clientVars >>
    /\ UNCHANGED monCleanup
    /\ UNCHANGED << orchestrator, num_gpus, stop_processing, processing_status,
                    results_cache, ws_connections, wsThread, next_i, ntasks,
                    completed_count, doneQueue, all_results, retval,
                    stop_seen, trace >>

\* POST /prompt raises (transport error, answer that is not JSON).
PostException(i) ==
    /\ Running(i)
    /\ ipc[i] = "post"
    /\ Except(i, "prompt exception")

\* A poll finds the job completed: progress 100, the downloads start.
PollCompleted(i) ==
    /\ Running(i)
    /\ ipc[i] = "poll"
    /\ io' = Did(io, i, {"job completed", "GET /view"})
    /\ ipc' = [ipc EXCEPT ![i] = "download"]
    /\ UNCHANGED << batch_size, now, sideVars, clientVars >>
    /\ UNCHANGED monCleanup
    /\ UNCHANGED << orchestrator, num_gpus, stop_processing, processing_status,
                    results_cache, ws_connections, wsThread, bpc, next_i,
                    ntasks, completed_count, doneQueue, all_results, retval,
                    stop_seen, trace >>

\* A poll finds status_str == 'error': status 'error' (no message is
\* written), connection popped and closed, return None.
PollError(i) ==
    /\ Running(i)
    /\ ipc[i] = "poll"
    /\ processing_status' = SetStatus(processing_status, i, "error")
    /\ trace' = Log(trace, i, "error")
    /\ io' = Did(io, i, {"job error"})
    /\ PopAndClose(i)
    /\ PopPreview(i)
    /\ Finish(i, FALSE)
    /\ UNCHANGED << batch_size, now, sideVars, clientVars >>
    /\ UNCHANGED << orchestrator, num_gpus, stop_processing, results_cache,
                    bpc, next_i, ntasks, completed_count, all_results, retval,
                    stop_seen >>

\* The outputs are downloaded and written: status 'completed', connection
\* popped and closed, the result is returned.
DownloadDone(i) ==
    /\ Running(i)
    /\ ipc[i] = "download"
    /\ processing_status' = SetStatus(processing_status, i, "completed")
    /\ trace' = Log(trace, i, "completed")
    /\ io' = Did(io, i, {"outputs written"})
    /\ PopAndClose(i)
    /\ PopPreview(i)
    /\ Finish(i, TRUE)
    /\ UNCHANGED << batch_size, now, sideVars, clientVars >>
    /\ UNCHANGED << orchestrator, num_gpus, stop_processing, results_cache,
                    bpc, next_i, ntasks, completed_count, all_results, retval,
                    stop_seen >>

\* A download or a write raises.
DownloadException(i) ==
    /\ Running(i)
    /\ ipc[i] = "download"
    /\ Except(i, "download exception")

(***************************************************************************)
(* The monitor thread of item i (monitor_progress_websocket).  ws.close()  *)
(* is called from the event-loop thread; the monitor thread may still be   *)
(* handling a message it has read until it ends with on_close.             *)
(***************************************************************************)
\* on_message with a text message of type 'execution_start'.
OnMessageExecutionStart(i) ==
    /\ i \in Items
    /\ wsThread[i] \in {"running", "closing"}
    /\ processing_status' = SetStatus(processing_status, i, "processing")
    /\ trace' = Log(trace, i, "processing")
    /\ UNCHANGED << batch_size, now, sideVars, clientVars >>
    /\ UNCHANGED monCleanup
    /\ UNCHANGED << orchestrator, num_gpus, stop_processing, results_cache,
                    ws_connections, wsThread, bpc, next_i, ntasks,
                    completed_count, doneQueue, all_results, retval, ipc,
                    stop_seen, io >>

\* A mutant of OnClose: the end of the connection ends the item's routine.
OnCloseEndsRoutine(i) ==
    /\ i \in Items
    /\ wsThread[i] \in {"running", "closing"}
    /\ wsThread' = [wsThread EXCEPT ![i] = "closed"]
    /\ ws_connections' = ws_connections \ {i}
    /\ removed' = [removed EXCEPT ![i] = @ + (IF i \in ws_connections THEN 1 ELSE 0)]
    /\ raised' = (raised \/ PopRaises(ws_connections, i))
    /\ PopPreview(i)
    /\ IF ipc[i] \in {"post", "poll", "download"}
       THEN /\ processing_status' = [processing_status EXCEPT ![i].status = "failed"]
            /\ trace' = Log(trace, i, "failed")
            /\ Finish(i, FALSE)
       ELSE UNCHANGED << processing_status, trace, ipc, doneQueue >>
    /\ UNCHANGED << batch_size, now, sideVars, clientVars >>
    /\ UNCHANGED << orchestrator, num_gpus, stop_processing, results_cache, bpc,
                    next_i, ntasks, completed_count, all_results, retval,
                    stop_seen, io >>

\* on_close: after ws.close(), a close by the worker, or a failed connection.
OnClose(i) ==
    /\ i \in Items
    /\ wsThread[i] \in {"running", "closing"}
    /\ wsThread' = [wsThread EXCEPT ![i] = "closed"]
    /\ ws_connections' = ws_connections \ {i}
    /\ removed' = [removed EXCEPT ![i] = @ + (IF i \in ws_connections THEN 1 ELSE 0)]
    /\ raised' = (raised \/ PopRaises(ws_connections, i))
    /\ PopPreview(i)
    /\ UNCHANGED << batch_size, now, sideVars, clientVars >>
    /\ UNCHANGED << orchestrator, num_gpus, stop_processing, processing_status,
                    results_cache, bpc, next_i, ntasks, completed_count,
                    doneQueue, all_results, retval, ipc, stop_seen, trace, io >>

Next ==
    \/ RequestStop
    \/ StartBatch
    \/ StartBatchInitFails
    \/ Dispatch
    \/ DispatchEnd
    \/ LoopNext
    \/ LoopStop
    \/ AwaitNext
    \/ FinalCleanup
    \/ \E i \in Items : StartTask(i)
    \/ \E i \in Items : HealthOk(i)
    \/ \E i \in Items : HealthFail(i)
    \/ \E i \in Items : UploadOk(i)
    \/ \E i \in Items : UploadFail(i)
    \/ \E i \in Items : PostAccepted(i)
    \/ \E i \in Items : PostRejected(i)
    \/ \E i \in Items : PostException(i)
    \/ \E i \in Items : PollCompleted(i)
    \/ \E i \in Items : PollError(i)
    \/ \E i \in Items : DownloadDone(i)
    \/ \E i \in Items : DownloadException(i)
    \/ \E i \in Items : OnMessageExecutionStart(i)
    \/ \E i \in Items : OnClose(i)

Spec == Init /\ [][Next]_vars

\* The steps of the batch call and of the routine of item i.
BatchStep ==
    \/ StartBatch
    \/ StartBatchInitFails
    \/ Dispatch
    \/ DispatchEnd
    \/ LoopNext
    \/ LoopStop
    \/ AwaitNext
    \/ FinalCleanup
RoutineStep(i) ==
    \/ StartTask(i)
    \/ HealthOk(i)
    \/ HealthFail(i)
    \/ UploadOk(i)
    \/ UploadFail(i)
    \/ PostAccepted(i)
    \/ PostRejected(i)
    \/ PostException(i)
    \/ PollCompleted(i)
    \/ PollError(i)
    \/ DownloadDone(i)
    \/ DownloadException(i)

\* The event loop runs every coroutine that can go on, and every worker
\* answers every request and ends every job (completed or in error).
FairSpec ==
    /\ Spec
    /\ WF_vars(BatchStep)
    /\ \A i \in Items : WF_vars(RoutineStep(i))

(***************************************************************************)
(* The progress monitor with its preview messages.  A preview frame is     *)
(* saved under a name made of the item and the millisecond it arrived in;  *)
(* the frame arrives in the millisecond of the previous one or a later one.*)
(***************************************************************************)
\* on_message with a binary message of type 1 (a preview image).
OnMessagePreview(i) ==
    /\ i \in Batch
    /\ wsThread[i] \in {"running", "closing"}
    /\ \E t \in now .. MaxClock :
          /\ now' = t
          /\ temp_files' = temp_files \cup {<< i, t >>}
          /\ preview_images' = [preview_images EXCEPT ![i] = FilePreview(t)]
    /\ UNCHANGED << batch_size, sideVars, clientVars, removed, raised >>
    /\ UNCHANGED << orchestrator, num_gpus, stop_processing, processing_status,
                    results_cache, ws_connections, wsThread, bpc, next_i,
                    ntasks, completed_count, doneQueue, all_results, retval,
                    ipc, stop_seen, trace, io >>

\* on_message with a text message of type 'executed' that names an image.
OnMessageExecuted(i) ==
    /\ i \in Batch
    /\ wsThread[i] \in {"running", "closing"}
    /\ preview_images' = [preview_images EXCEPT ![i] = UrlPreview]
    /\ UNCHANGED << batch_size, now, sideVars, clientVars, temp_files, removed, raised >>
    /\ UNCHANGED << orchestrator, num_gpus, stop_processing, processing_status,
                    results_cache, ws_connections, wsThread, bpc, next_i,
                    ntasks, completed_count, doneQueue, all_results, retval,
                    ipc, stop_seen, trace, io >>

\* The monitor is examined with a batch of MonitorBatch items and every
\* worker of the pool available.
MonitorInit ==
    /\ Init
    /\ batch_size = MonitorBatch
    /\ num_gpus = MaxGpus

MonitorNext ==
    \/ Next
    \/ \E i \in Items : OnMessagePreview(i)
    \/ \E i \in Items : OnMessageExecuted(i)

MonitorSpec == MonitorInit /\ [][MonitorNext]_vars

(***************************************************************************)
(* The output directory.  A file name is a sequence of tokens, the last    *)
(* one the extension: f"{base_name}_.png" is base_name \o << "_", ".png" >>.*)
(* A file is a name with the number of the write that made its content.    *)
(***************************************************************************)
mainVars == << batchVars, laterVars >>

\* Path(image_path).stem of the inputs.
Stems == { << "a" >>, << "a", "_", "refined" >> }
\* img_info['filename'] as the workers name their outputs.
WorkerNames == { << "ComfyUI", "_", "1", "_", ".png" >> }
\* The outputs of node "20" are the unrefined ones, of node "52" the refined.
Roles == << "unrefined", "refined" >>
\* f"{counter}"
Str(k) == << "1", "2", "3", "4", "5", "6", "7", "8", "9" >>[k]

\* base_path.exists()
Exists(path) == \E f \in disk : f.name = path

\* base_path.parent / f"{base_path.stem}_{counter}{base_path.suffix}"
WithCounter(path, counter) ==
    SubSeq(path, 1, Len(path) - 1) \o << "_", Str(counter) >> \o << path[Len(path)] >>

RECURSIVE FirstUnused(_, _)
FirstUnused(path, counter) ==
    IF ~Exists(WithCounter(path, counter))
    THEN WithCounter(path, counter)
    ELSE FirstUnused(path, counter + 1)

get_unique_filename(base_path) ==
    IF ~Exists(base_path) THEN base_path ELSE FirstUnused(base_path, 1)

\* self.output_dir / f"{base_name}_.png" and f"{base_name}_refined.png"
DerivedName(base_name, role) ==
    IF role = "unrefined"
    THEN base_name \o << "_", ".png" >>
    ELSE base_name \o << "_", "refined", ".png" >>

\* with open(output_path, 'wb') as f: f.write(content)
WriteFile(path) ==
    /\ disk' = {f \in disk : f.name # path} \cup {[name |-> path, content |-> writes + 1]}
    /\ writes' = writes + 1

Repeat(x, n) == [k \in 1 .. n |-> x]

\* A poll finds the job completed: the outputs of the two nodes are listed.
BeginDownload ==
    /\ job.state # "downloading"
    /\ writes < MaxWrites
    /\ \E base_name \in Stems, save_unrefined \in BOOLEAN,
          n20 \in 0 .. MaxImages, n52 \in 0 .. MaxImages :
          job' = [state |-> "downloading", base_name |-> base_name,
                  save_unrefined |-> save_unrefined,
                  images |-> Repeat("unrefined", n20) \o Repeat("refined", n52),
                  produced |-> {Roles[1] : x \in 1 .. n20} \cup {Roles[2] : x \in 1 .. n52}]
    /\ output_files' = << >>
    /\ UNCHANGED << disk, writes, poller, mainVars >>

\* An image of node "20" when save_unrefined is false: no request, no file.
SkipUnrefined ==
    /\ job.state = "downloading"
    /\ job.images # << >>
    /\ Head(job.images) = "unrefined"
    /\ ~job.save_unrefined
    /\ job' = [job EXCEPT !.images = Tail(@)]
    /\ UNCHANGED << disk, writes, output_files, poller, mainVars >>

Retained ==
    /\ job.state = "downloading"
    /\ job.images # << >>
    /\ (Head(job.images) = "unrefined" => job.save_unrefined)

\* GET /view answers 200: the content is written under a unique name.
ViewOk ==
    /\ Retained
    /\ writes < MaxWrites
    /\ LET output_path == get_unique_filename(DerivedName(job.base_name, Head(job.images)))
       IN /\ WriteFile(output_path)
          /\ output_files' = Append(output_files,
                                    [path |-> output_path, role |-> Head(job.images)])
    /\ job' = [job EXCEPT !.images = Tail(@)]
    /\ UNCHANGED << poller, mainVars >>

\* GET /view answers another status: the image is passed over.
ViewNot200 ==
    /\ Retained
    /\ job' = [job EXCEPT !.images = Tail(@)]
    /\ UNCHANGED << disk, writes, output_files, poller, mainVars >>

\* After the two loops: status 'completed', the result carries output_files.
EndDownload ==
    /\ job.state = "downloading"
    /\ job.images = << >>
    /\ job' = [job EXCEPT !.state = "completed"]
    /\ UNCHANGED << disk, writes, output_files, poller, mainVars >>

\* ComfyUIMultiGPU.download_outputs: one image of one result, answered 200.
CliDownload ==
    /\ writes < MaxWrites
    /\ \E filename \in WorkerNames : WriteFile(filename)
    /\ UNCHANGED << job, output_files, poller, mainVars >>

OutputInit ==
    /\ Init
    /\ orchestrator = "ready"
    /\ num_gpus = MaxGpus
    /\ batch_size = NumItems

OutputNext ==
    \/ BeginDownload
    \/ SkipUnrefined
    \/ ViewOk
    \/ ViewNot200
    \/ EndDownload
    \/ CliDownload

OutputSpec == OutputInit /\ [][OutputNext]_vars

(***************************************************************************)
(* The polling loops of the three front ends, with the seconds elapsed     *)
(* since the loop was entered.                                             *)
(***************************************************************************)
\* timeout = 600 of the Gradio routine.
timeout == 600
Apps == {"flask", "gradio", "cli"}

\* await asyncio.sleep(1) in the web routines, asyncio.sleep(2) in the CLI.
PollDelay(app) == IF app = "cli" THEN 2 ELSE 1

\* The loop condition: while True, or while time.time() - start_time < timeout.
LoopCondition(p) == IF p.app = "gradio" THEN p.elapsed < timeout ELSE TRUE

\* The job is accepted and the loop is entered.
StartPolling ==
    /\ poller.app = "none"
    /\ \E app \in Apps :
          poller' = [app |-> app, elapsed |-> 0, status |-> "processing", cause |-> "none"]
    /\ UNCHANGED << disk, writes, job, output_files, mainVars >>

Polling ==
    /\ poller.app # "none"
    /\ poller.status = "processing"

\* A poll finds the job neither completed nor failed; the routine sleeps.
PollPending ==
    /\ Polling
    /\ LoopCondition(poller)
    /\ poller.elapsed < MaxPollTime
    /\ poller' = [poller EXCEPT !.elapsed = @ + PollDelay(poller.app)]
    /\ UNCHANGED << disk, writes, job, output_files, mainVars >>

\* A poll finds the completion flag set.
PollFindsCompleted ==
    /\ Polling
    /\ LoopCondition(poller)
    /\ poller' = [poller EXCEPT !.status = "completed", !.cause = "worker completed"]
    /\ UNCHANGED << disk, writes, job, output_files, mainVars >>

\* A poll finds status_str == 'error'.
PollFindsError ==
    /\ Polling
    /\ LoopCondition(poller)
    /\ poller' = [poller EXCEPT !.status = "error", !.cause = "worker error"]
    /\ UNCHANGED << disk, writes, job, output_files, mainVars >>

\* The loop condition fails: the routine falls out of the loop.
PollLoopExit ==
    /\ Polling
    /\ ~LoopCondition(poller)
    /\ poller' = [poller EXCEPT !.status = "timeout", !.cause = "elapsed time"]
    /\ UNCHANGED << disk, writes, job, output_files, mainVars >>

PollInit ==
    /\ Init
    /\ orchestrator = "ready"
    /\ num_gpus = MaxGpus
    /\ batch_size = NumItems

PollNext ==
    \/ StartPolling
    \/ PollPending
    \/ PollFindsCompleted
    \/ PollFindsError
    \/ PollLoopExit

PollSpec == PollInit /\ [][PollNext]_vars

(***************************************************************************)
(* Building the job document of an item from the template, as the three    *)
(* front ends do it before they post it.                                   *)
(***************************************************************************)
FrontEnds == {"flask", "gradio", "cli"}
ImageNames == {"a.png", "b.png"}
PositivePrompts == {"a cat", "a dog"}
NegativePrompts == {"ugly"}

\* A mutant of modify_workflow_for_image: the document is rewritten in place.
modify_workflow_in_place(w, image_filename) ==
    LET c == IF "1" \in DOMAIN w THEN [w EXCEPT !["1"].image = image_filename] ELSE w
    IN [template |-> c, copy |-> c]

\* ComfyUIMultiGPU.modify_workflow_for_image: the template after the call and
\* the document returned.  The copy is json.loads(json.dumps(self.workflow)),
\* which gives back a document loaded from JSON unchanged.
modify_workflow_for_image(w, image_filename) ==
    [template |-> w,
     copy |-> IF "1" \in DOMAIN w THEN [w EXCEPT !["1"].image = image_filename] ELSE w]

\* if "10" in workflow_copy: ...; if "15" in workflow_copy: ...
SetPrompts(c, positive_prompt, negative_prompt) ==
    LET c1 == IF "10" \in DOMAIN c THEN [c EXCEPT !["10"].text = positive_prompt] ELSE c
    IN IF "15" \in DOMAIN c1 THEN [c1 EXCEPT !["15"].text = negative_prompt] ELSE c1

\* if "12" in workflow_copy ...: noise_seed = -1; if "46" ...: seed = -1
SetSeeds(c) ==
    LET c1 == IF "12" \in DOMAIN c THEN [c EXCEPT !["12"].noise_seed = -1] ELSE c
    IN IF "46" \in DOMAIN c1 THEN [c1 EXCEPT !["46"].seed = -1] ELSE c1

\* The document a front end posts, and the template after it was built.
Instantiate(app, w, image_filename, positive_prompt, negative_prompt) ==
    LET r == modify_workflow_for_image(w, image_filename)
        c1 == IF app \in {"flask", "gradio"}
              THEN SetPrompts(r.copy, positive_prompt, negative_prompt)
              ELSE r.copy
        c2 == IF app = "flask" THEN SetSeeds(c1) ELSE c1
    IN [template |-> r.template, prompt |-> c2]

\* A routine builds the document of its item and posts it.
PostJob ==
    /\ Cardinality(payloads) < MaxPayloads
    /\ \E app \in FrontEnds, image \in ImageNames,
          positive \in PositivePrompts, negative \in NegativePrompts :
          LET r == Instantiate(app, workflow, image, positive, negative)
          IN /\ workflow' = r.template
             /\ payloads' = payloads \cup
                    {[app |-> app, prompt |-> r.prompt, image |-> image,
                      positive |-> positive, negative |-> negative]}
    /\ UNCHANGED << batchVars, outVars, frameVars, labelVars, reprVars, extraVars >>

TemplateInit ==
    /\ InitBatch
    /\ orchestrator = "ready"
    /\ num_gpus = MaxGpus
    /\ batch_size = NumItems
    /\ workflow \in Templates
    /\ payloads = {}
    /\ InitFrames
    /\ InitManager
    /\ InitRequests
    /\ InitExtra

TemplateNext == PostJob

TemplateSpec == TemplateInit /\ [][TemplateNext]_vars

(***************************************************************************)
(* The binary messages of a monitor.  A message is a sequence of bytes:    *)
(* four bytes of type, four bytes of additional information, the payload.  *)
(***************************************************************************)
\* struct.unpack('>I', b)[0]
BigEndian32(b) == ((b[1] * 256 + b[2]) * 256 + b[3]) * 256 + b[4]

ParsedNone == [none |-> TRUE, msg_type |-> -1, payload |-> << >>]

\* A mutant of parse_comfyui_binary_message: the type is read little-endian.
parse_little_endian(data) ==
    IF Len(data) < 8
    THEN ParsedNone
    ELSE [none |-> FALSE, msg_type |-> ((data[4] * 256 + data[3]) * 256 + data[2]) * 256 + data[1],
          payload |-> SubSeq(data, 9, Len(data))]

parse_comfyui_binary_message(data) ==
    IF Len(data) < 8
    THEN ParsedNone
    ELSE [none |-> FALSE, msg_type |-> BigEndian32(SubSeq(data, 1, 4)),
          payload |-> SubSeq(data, 9, Len(data))]

\* The payloads that Image.open reads as an image (here the PNG signature's
\* first bytes stand for a whole image).
ValidImages == { << 137, 80 >> }
\* handle_preview_image(payload) returns an image, not None.
handle_preview_image(payload) == payload \in ValidImages

\* The messages a worker may send: every type, information and payload below,
\* and every message cut short of its eight leading bytes.
FrameTypes == { << 0, 0, 0, 1 >>, << 0, 0, 0, 2 >>, << 1, 0, 0, 0 >> }
FrameInfos == { << 0, 0, 0, 0 >>, << 0, 0, 0, 2 >> }
FramePayloads == { << >>, << 137, 80 >>, << 0 >> }
WholeFrames == {t \o n \o pl : t \in FrameTypes, n \in FrameInfos, pl \in FramePayloads}
Frames == WholeFrames \cup {SubSeq(f, 1, k) : f \in WholeFrames, k \in 0 .. 7}

\* on_message with a binary message.
OnMessageBinary(i) ==
    /\ i \in Batch
    /\ wsThread[i] \in {"running", "closing"}
    /\ \E data \in Frames :
          LET parsed == parse_comfyui_binary_message(data)
          IN /\ message' = [item |-> i, data |-> data]
             /\ IF ~parsed.none /\ parsed.msg_type = 1 /\ parsed.payload # << >>
                   /\ handle_preview_image(parsed.payload)
                THEN \E t \in now .. MaxClock :
                       /\ now' = t
                       /\ temp_files' = temp_files \cup {<< i, t >>}
                       /\ preview_images' = [preview_images EXCEPT ![i] = FilePreview(t)]
                ELSE UNCHANGED << now, temp_files, preview_images >>
    /\ UNCHANGED << batch_size, outVars, tmplVars, labelVars, reprVars, extraVars, clientVars,
                    removed, raised >>
    /\ UNCHANGED << orchestrator, num_gpus, stop_processing, processing_status,
                    results_cache, ws_connections, wsThread, bpc, next_i,
                    ntasks, completed_count, doneQueue, all_results, retval,
                    ipc, stop_seen, trace, io >>

\* The state the batch engine is in when the job of every item has been
\* accepted: every routine polls and every monitor runs.
FrameInit ==
    /\ orchestrator = "ready"
    /\ num_gpus = MaxGpus
    /\ stop_processing = FALSE
    /\ batch_size = NumItems
    /\ processing_status = [i \in Items |->
           [status |-> "processing", gpu |-> AssignWorker(i, MaxGpus), error |-> ""]]
    /\ results_cache = {}
    /\ ws_connections = Items
    /\ wsThread = [i \in Items |-> "running"]
    /\ bpc = "await"
    /\ next_i = NumItems
    /\ ntasks = NumItems
    /\ completed_count = 0
    /\ doneQueue = << >>
    /\ all_results = << >>
    /\ retval = << >>
    /\ ipc = [i \in Items |-> "poll"]
    /\ stop_seen = FALSE
    /\ trace = [i \in Items |-> << "queued", "uploading", "processing" >>]
    /\ io = [i \in Items |->
           {"GET /system_stats", "health ok", "POST /upload/image", "upload ok",
            "ws open", "POST /prompt", "prompt accepted", "GET /history"}]
    /\ preview_images = [i \in Items |-> NoPreview]
    /\ temp_files = {}
    /\ now = 0
    /\ removed = [i \in Items |-> 0]
    /\ raised = FALSE
    /\ disk = {}
    /\ writes = 0
    /\ job = NoJob
    /\ output_files = << >>
    /\ poller = NoPoller
    /\ ws_client = [i \in Items |-> uuid4(i, 1)]
    /\ post_client = [i \in Items |-> uuid4(i, 1)]
    /\ InitTemplate
    /\ InitFrames
    /\ InitManager
    /\ InitRequests
    /\ InitExtra

FrameNext == \E i \in Items : OnMessageBinary(i)

FrameSpec == FrameInit /\ [][FrameNext]_vars

(***************************************************************************)
(* The WorkflowManager: roles resolved by node title.  A template is the   *)
(* sequence of its nodes in the order of the file (the order of the        *)
(* dictionary); a text is a sequence of characters.                        *)
(***************************************************************************)
MaxNodes == 3

\* The node ids, by position in the file.
NodeIds == << "10", "15", "16", "17" >>
Position(n) == CHOOSE k \in 1 .. Len(NodeIds) : NodeIds[k] = n
\* node_id in workflow
InWorkflow(n, w) == \E k \in 1 .. Len(w) : NodeIds[k] = n

\* required_nodes, and a title that is none of them.
Titles == {"INPUT_IMAGE", "POSITIVE", "NEGATIVE", "Note"}
Texts == { << "c", "a", "t" >>, << "U", "g", "l", "y" >>,
           << "b", "a", "d", "g", "e" >>, << >> }
LabelNodes == [title : Titles, text : Texts, image : {"example.png"}]
LabelTemplates == UNION {[1 .. n -> LabelNodes] : n \in 0 .. MaxNodes}

negative_words ==
    { << "b", "l", "u", "r", "r", "y" >>,
      << "l", "o", "w", " ", "q", "u", "a", "l", "i", "t", "y" >>,
      << "w", "o", "r", "s", "t", " ", "q", "u", "a", "l", "i", "t", "y" >>,
      << "b", "a", "d" >>,
      << "u", "g", "l", "y" >>,
      << "d", "e", "f", "o", "r", "m", "e", "d" >> }

\* str.lower on the characters of Texts.
LowerChar(c) == CASE c = "U" -> "u" [] c = "B" -> "b" [] OTHER -> c
lower(text) == [k \in 1 .. Len(text) |-> LowerChar(text[k])]
\* word in text
Contains(text, word) ==
    \E k \in 1 .. (Len(text) - Len(word) + 1) :
        SubSeq(text, k, k + Len(word) - 1) = word
is_negative(text) == \E word \in negative_words : Contains(lower(text), word)

\* The ids of the nodes of w titled t, in file order.
RECURSIVE TitledFrom(_, _, _)
TitledFrom(w, t, k) ==
    IF k > Len(w) THEN << >>
    ELSE (IF w[k].title = t THEN << NodeIds[k] >> ELSE << >>) \o TitledFrom(w, t, k + 1)
Titled(w, t) == TitledFrom(w, t, 1)

\* The first element of l that satisfies is_negative = b, as a mapping value.
RECURSIVE FirstWith(_, _, _)
FirstWith(w, l, b) ==
    IF l = << >> THEN None
    ELSE IF is_negative(w[Position(Head(l))].text) = b THEN NodeId(Head(l))
    ELSE FirstWith(w, Tail(l), b)

_build_node_mappings(w) ==
    LET inputs == Titled(w, "INPUT_IMAGE")
        prompt_nodes == Titled(w, "POSITIVE")
        negatives == Titled(w, "NEGATIVE")
        found_negative == FirstWith(w, prompt_nodes, TRUE)
        found_positive == FirstWith(w, prompt_nodes, FALSE)
        positive_node == IF found_positive = None
                         THEN NodeId(prompt_nodes[1]) ELSE found_positive
        negative_node ==
            IF found_negative = None /\ Len(prompt_nodes) > 1
            THEN (IF NodeId(prompt_nodes[2]) # positive_node
                  THEN NodeId(prompt_nodes[2]) ELSE NodeId(prompt_nodes[1]))
            ELSE found_negative
    IN [input_image |-> IF inputs = << >> THEN Absent
                        ELSE NodeId(inputs[Len(inputs)]),
        positive_prompt |-> IF prompt_nodes = << >> THEN Absent ELSE positive_node,
        negative_prompt |-> IF prompt_nodes # << >> THEN negative_node
                            ELSE IF negatives = << >> THEN Absent
                            ELSE NodeList(negatives)]

\* set_current_workflow
SetCurrentWorkflow ==
    /\ wm_pc = "loaded"
    /\ node_mappings' = _build_node_mappings(current_workflow_data)
    /\ wm_pc' = "mapped"
    /\ UNCHANGED << current_workflow_data, workflow_copy, wm_raised >>
    /\ UNCHANGED << batchVars, outVars, tmplVars, frameVars, reprVars, extraVars >>

\* "x and x in workflow" for a mapping value x: None and a missing key are
\* falsy, a list is unhashable.
Truthy(m) == m.kind \in {"id", "list"}
Unhashable(m) == m.kind = "list"

\* WorkflowManager.modify_workflow_for_image
ModifyWorkflowForImage ==
    /\ wm_pc = "mapped"
    /\ \E image_filename \in ImageNames :
         IF current_workflow_data = << >>
         THEN /\ wm_raised' = "ValueError"
              /\ wm_pc' = "done"
              /\ UNCHANGED workflow_copy
         ELSE LET m == node_mappings.input_image
              IN /\ workflow_copy' =
                       IF Truthy(m) /\ InWorkflow(m.id, current_workflow_data)
                       THEN [current_workflow_data EXCEPT
                               ![Position(m.id)].image = image_filename]
                       ELSE current_workflow_data
                 /\ wm_pc' = "copied"
                 /\ UNCHANGED wm_raised
    /\ UNCHANGED << current_workflow_data, node_mappings >>
    /\ UNCHANGED << batchVars, outVars, tmplVars, frameVars, reprVars, extraVars >>

\* One half of update_prompts: the text of the node of a role.
SetText(w, m, text) ==
    IF Truthy(m) /\ InWorkflow(m.id, w)
    THEN [w EXCEPT ![Position(m.id)].text = text]
    ELSE w

\* WorkflowManager.update_prompts
UpdatePrompts ==
    /\ wm_pc = "copied"
    /\ \E positive_prompt \in {<< "d", "o", "g" >>}, negative_prompt \in {<< "d", "i", "m" >>} :
         LET pos == node_mappings.positive_prompt
             neg == node_mappings.negative_prompt
             after_pos == SetText(workflow_copy, pos, positive_prompt)
         IN IF Unhashable(pos)
            THEN wm_raised' = "TypeError" /\ UNCHANGED workflow_copy
            ELSE IF Unhashable(neg)
            THEN wm_raised' = "TypeError" /\ workflow_copy' = after_pos
            ELSE /\ workflow_copy' = SetText(after_pos, neg, negative_prompt)
                 /\ UNCHANGED wm_raised
    /\ wm_pc' = "done"
    /\ UNCHANGED << current_workflow_data, node_mappings >>
    /\ UNCHANGED << batchVars, outVars, tmplVars, frameVars, reprVars, extraVars >>

LabelInit ==
    /\ InitBatch
    /\ orchestrator = "ready"
    /\ num_gpus = MaxGpus
    /\ batch_size = NumItems
    /\ InitTemplate
    /\ InitFrames
    /\ InitRequests
    /\ InitExtra
    /\ current_workflow_data \in LabelTemplates
    /\ node_mappings = NoMappings
    /\ workflow_copy = << >>
    /\ wm_raised = ""
    /\ wm_pc = "loaded"

LabelNext ==
    \/ SetCurrentWorkflow
    \/ ModifyWorkflowForImage
    \/ UpdatePrompts

LabelSpec == LabelInit /\ [][LabelNext]_vars

(***************************************************************************)
(* Marking a result and processing its input again.  A path of the         *)
(* temporary input directory is the file of an upload or the copy made for *)
(* a marked result.                                                        *)
(***************************************************************************)
NumUploads == 2
MaxIds == 4

UploadPath(k) == [kind |-> "upload", of |-> k]
\* reprocess_{image_id}_{int(time.time())}.png
ReprocessPath(image_id) == [kind |-> "reprocess", of |-> image_id]

\* f with f[k] = v
Put(f, k, v) == [x \in (DOMAIN f) \cup {k} |-> IF x = k THEN v ELSE f[x]]

\* The items of a new batch: one fresh id, str(uuid.uuid4()), for every path
\* of the sequence that exists.
RECURSIVE NewItems(_, _)
NewItems(paths, used) ==
    IF paths = << >> THEN {}
    ELSE IF Head(paths) \in input_files
    THEN {[image_id |-> used + 1, path |-> Head(paths)]} \cup NewItems(Tail(paths), used + 1)
    ELSE NewItems(Tail(paths), used)

\* A set of paths or ids as a sequence, in the order of the queue.
RECURSIVE InOrder(_)
InOrder(S) ==
    IF S = {} THEN << >>
    ELSE LET x == CHOOSE y \in S : \A z \in S : y.of <= z.of
         IN << x >> \o InOrder(S \ {x})

BatchOf(items, cleanup) ==
    [active |-> TRUE, items |-> items,
     pending |-> {it.image_id : it \in items}, cleanup |-> cleanup]

\* /process
ProcessImages ==
    /\ ~running.active
    /\ upload_queue # {}
    /\ LET items == NewItems(InOrder(upload_queue), ids_used)
       IN /\ items # {}
          /\ Cardinality(items) + ids_used <= MaxIds
          /\ upload_queue' = {q \in upload_queue : q \notin input_files}
          /\ ids_used' = ids_used + Cardinality(items)
          /\ running' = BatchOf(items, upload_queue)
    /\ UNCHANGED << reprocess_queue, input_files, result_input_path, marked >>
    /\ UNCHANGED << batchVars, outVars, tmplVars, frameVars, labelVars, extraVars >>

\* An item of the running batch completes: its result, with the path of its
\* input, enters the results cache; a failed item leaves no result.
ItemDone ==
    /\ running.active
    /\ \E it \in running.items :
         /\ it.image_id \in running.pending
         /\ running' = [running EXCEPT !.pending = @ \ {it.image_id}]
         /\ \/ result_input_path' = Put(result_input_path, it.image_id, it.path)
            \/ UNCHANGED result_input_path
    /\ UNCHANGED << upload_queue, reprocess_queue, input_files, ids_used, marked >>
    /\ UNCHANGED << batchVars, outVars, tmplVars, frameVars, labelVars, extraVars >>

\* run_async_processing and run_async_reprocessing after the batch returned:
\* the input files of the batch are removed.
BatchReturns ==
    /\ running.active
    /\ running.pending = {}
    /\ input_files' = input_files \ running.cleanup
    /\ running' = NoBatch
    /\ UNCHANGED << upload_queue, reprocess_queue, result_input_path, ids_used, marked >>
    /\ UNCHANGED << batchVars, outVars, tmplVars, frameVars, labelVars, extraVars >>

\* The batch is stopped: it raises, and the files are not removed.
BatchRaises ==
    /\ running.active
    /\ running.pending # {}
    /\ running.pending # {it.image_id : it \in running.items}
    /\ running' = NoBatch
    /\ UNCHANGED << upload_queue, reprocess_queue, input_files, result_input_path,
                    ids_used, marked >>
    /\ UNCHANGED << batchVars, outVars, tmplVars, frameVars, labelVars, extraVars >>

\* mark_for_reprocessing(image_id)
MarkForReprocessing ==
    /\ \E image_id \in 1 .. MaxIds :
         LET cached == image_id \in DOMAIN result_input_path
         IN IF cached /\ result_input_path[image_id] \in input_files
            THEN /\ input_files' = input_files \cup {ReprocessPath(image_id)}
                 /\ reprocess_queue' =
                       Put(reprocess_queue, image_id, ReprocessPath(image_id))
                 /\ marked' = [image_id |-> image_id, cached |-> TRUE,
                               status |-> "success"]
            ELSE /\ marked' = [image_id |-> image_id, cached |-> cached,
                               status |-> "error"]
                 /\ UNCHANGED << input_files, reprocess_queue >>
    /\ UNCHANGED << upload_queue, result_input_path, running, ids_used >>
    /\ UNCHANGED << batchVars, outVars, tmplVars, frameVars, labelVars, extraVars >>

\* /reprocess
ReprocessImages ==
    /\ ~running.active
    /\ DOMAIN reprocess_queue # {}
    /\ LET paths == {reprocess_queue[k] : k \in DOMAIN reprocess_queue}
           items == NewItems(InOrder(paths), ids_used)
       IN /\ items # {}
          /\ Cardinality(items) + ids_used <= MaxIds
          /\ reprocess_queue' = << >>
          /\ ids_used' = ids_used + Cardinality(items)
          /\ running' = BatchOf(items, paths)
    /\ UNCHANGED << upload_queue, input_files, result_input_path, marked >>
    /\ UNCHANGED << batchVars, outVars, tmplVars, frameVars, labelVars, extraVars >>

\* The files of NumUploads uploads are in the upload queue.
ReprocessInit ==
    /\ InitBatch
    /\ orchestrator = "ready"
    /\ num_gpus = MaxGpus
    /\ batch_size = NumItems
    /\ InitTemplate
    /\ InitFrames
    /\ InitManager
    /\ upload_queue = {UploadPath(k) : k \in 1 .. NumUploads}
    /\ input_files = upload_queue
    /\ reprocess_queue = << >>
    /\ result_input_path = << >>
    /\ running = NoBatch
    /\ ids_used = 0
    /\ marked = NotMarked
    /\ InitExtra

ReprocessNext ==
    \/ ProcessImages
    \/ ItemDone
    \/ BatchReturns
    \/ BatchRaises
    \/ MarkForReprocessing
    \/ ReprocessImages

ReprocessSpec == ReprocessInit /\ [][ReprocessNext]_vars

(***************************************************************************)
(* The progress of one item while its routine polls the worker and its     *)
(* monitor receives progress events.                                       *)
(***************************************************************************)
MaxCount == 2

\* Everything but the progress of the item.
notProg == << batchVars, outVars, tmplVars, frameVars, labelVars, reprVars, cliVars,
             twoVars >>

\* What get_history_async and the entry of the job can be: no answer
\* (None), an answer without the job, an entry neither completed nor in error
\* without or with execution counters, a completed entry, an entry in error.
PollOutcomes ==
    [kind : {"failure", "no entry", "pending", "completed", "error"},
     current : {0}, total : {0}]
    \cup [kind : {"counters"}, current : 0 .. MaxCount, total : 0 .. MaxCount]

\* 25 + int((current / total) * 70)
PollProgress(current, total) == 25 + ((current * 70) \div total)
\* int((value / max_val) * 100)
EventProgress(value, max_val) == (value * 100) \div max_val

\* A mutant of PollHistory: a poll without an answer ends the routine.
PollHistoryGivesUp ==
    /\ prog_pc = "poll"
    /\ \E outcome \in PollOutcomes :
         /\ last_poll' = outcome
         /\ CASE outcome.kind = "failure" ->
                   /\ prog_status' = "error"
                   /\ prog_pc' = "done"
                   /\ UNCHANGED progress
              [] outcome.kind \in {"no entry", "pending"} ->
                   /\ prog_pc' = "sleep"
                   /\ UNCHANGED << prog_status, progress >>
              [] outcome.kind = "counters" /\ outcome.total = 0 ->
                   /\ prog_status' = "error"
                   /\ prog_pc' = "done"
                   /\ UNCHANGED progress
              [] outcome.kind = "counters" /\ outcome.total # 0 ->
                   /\ progress' = PollProgress(outcome.current, outcome.total)
                   /\ prog_pc' = "sleep"
                   /\ UNCHANGED prog_status
              [] outcome.kind = "completed" ->
                   /\ progress' = 100
                   /\ prog_status' = "completed"
                   /\ prog_pc' = "done"
              [] outcome.kind = "error" ->
                   /\ prog_status' = "error"
                   /\ prog_pc' = "done"
                   /\ UNCHANGED progress
    /\ UNCHANGED notProg

\* One turn of the poll loop of the routine, up to its sleep or its return.
\* Counters with total = 0 raise ZeroDivisionError, which the handler of the
\* routine turns into status 'error'.
PollHistory ==
    /\ prog_pc = "poll"
    /\ \E outcome \in PollOutcomes :
         /\ last_poll' = outcome
         /\ CASE outcome.kind \in {"failure", "no entry", "pending"} ->
                   /\ prog_pc' = "sleep"
                   /\ UNCHANGED << prog_status, progress >>
              [] outcome.kind = "counters" /\ outcome.total = 0 ->
                   /\ prog_status' = "error"
                   /\ prog_pc' = "done"
                   /\ UNCHANGED progress
              [] outcome.kind = "counters" /\ outcome.total # 0 ->
                   /\ progress' = PollProgress(outcome.current, outcome.total)
                   /\ prog_pc' = "sleep"
                   /\ UNCHANGED prog_status
              [] outcome.kind = "completed" ->
                   /\ progress' = 100
                   /\ prog_status' = "completed"
                   /\ prog_pc' = "done"
              [] outcome.kind = "error" ->
                   /\ prog_status' = "error"
                   /\ prog_pc' = "done"
                   /\ UNCHANGED progress
    /\ UNCHANGED notProg

\* await asyncio.sleep(1), then the next turn.
PollSleep ==
    /\ prog_pc = "sleep"
    /\ prog_pc' = "poll"
    /\ UNCHANGED << prog_status, progress, last_poll >>
    /\ UNCHANGED notProg

\* on_message with a 'progress' event carrying value and max.
OnMessageProgress ==
    /\ prog_pc \in {"poll", "sleep"}
    /\ \E value \in 0 .. MaxCount, max_val \in 0 .. MaxCount :
         IF max_val > 0
         THEN progress' = EventProgress(value, max_val)
         ELSE UNCHANGED progress
    /\ UNCHANGED << prog_status, prog_pc, last_poll >>
    /\ UNCHANGED notProg

\* The routine has set status 'processing' and progress 10 and its job is
\* accepted.
ProgressInit ==
    /\ InitBatch
    /\ orchestrator = "ready"
    /\ num_gpus = MaxGpus
    /\ batch_size = NumItems
    /\ InitTemplate
    /\ InitFrames
    /\ InitManager
    /\ InitRequests
    /\ InitCli
    /\ InitCalls
    /\ prog_status = "processing"
    /\ progress = 10
    /\ prog_pc = "poll"
    /\ last_poll = NoPoll

ProgressNext ==
    \/ PollHistory
    \/ PollSleep
    \/ OnMessageProgress

ProgressSpec == ProgressInit /\ [][ProgressNext]_vars

(***************************************************************************)
(* The batch of the command line tool: one task per image, all created at  *)
(* once, each inside "async with semaphore".                               *)
(***************************************************************************)
NumImages == 3
Images == 1 .. NumImages

\* Everything but the batch of the command line tool.
notCli == << batchVars, outVars, tmplVars, frameVars, labelVars, reprVars, progVars,
            twoVars >>

\* The images whose task is between the start of its upload and its result.
InFlight == {i \in Images : cli_pc[i] \in {"upload", "queue", "wait"}}

\* A mutant of Acquire: the task enters without waiting for the semaphore.
AcquireNoWait(i) ==
    /\ cli_pc[i] = "created"
    /\ semaphore' = semaphore - 1
    /\ cli_pc' = [cli_pc EXCEPT ![i] = "upload"]
    /\ UNCHANGED max_concurrent
    /\ UNCHANGED notCli

\* async with semaphore: entered
Acquire(i) ==
    /\ cli_pc[i] = "created"
    /\ semaphore > 0
    /\ semaphore' = semaphore - 1
    /\ cli_pc' = [cli_pc EXCEPT ![i] = "upload"]
    /\ UNCHANGED max_concurrent
    /\ UNCHANGED notCli

\* The task returns a result of the given status and leaves "async with
\* semaphore".
Release(i, status) ==
    /\ semaphore' = semaphore + 1
    /\ cli_pc' = [cli_pc EXCEPT ![i] = status]

\* upload_image_async: the upload succeeds, or the task returns 'failed'.
CliUpload(i) ==
    /\ cli_pc[i] = "upload"
    /\ \/ cli_pc' = [cli_pc EXCEPT ![i] = "queue"] /\ UNCHANGED semaphore
       \/ Release(i, "failed")
    /\ UNCHANGED max_concurrent
    /\ UNCHANGED notCli

\* queue_prompt_async: the job is accepted, or the task returns 'failed'.
CliQueuePrompt(i) ==
    /\ cli_pc[i] = "queue"
    /\ \/ cli_pc' = [cli_pc EXCEPT ![i] = "wait"] /\ UNCHANGED semaphore
       \/ Release(i, "failed")
    /\ UNCHANGED max_concurrent
    /\ UNCHANGED notCli

\* wait_for_completion_async returns: the task returns its result.
CliCompletion(i) ==
    /\ cli_pc[i] = "wait"
    /\ \E status \in {"completed", "error"} : Release(i, status)
    /\ UNCHANGED max_concurrent
    /\ UNCHANGED notCli

\* process_batch_async up to asyncio.gather: the semaphore has the value of
\* max_concurrent (the pool size by default) and every task is created.
CliInit ==
    /\ InitBatch
    /\ orchestrator = "ready"
    /\ num_gpus = MaxGpus
    /\ batch_size = NumItems
    /\ InitTemplate
    /\ InitFrames
    /\ InitManager
    /\ InitRequests
    /\ InitProgress
    /\ InitCalls
    /\ max_concurrent \in 1 .. MaxGpus
    /\ semaphore = max_concurrent
    /\ cli_pc = [i \in Images |-> "created"]

CliNext ==
    \E i \in Images :
        \/ Acquire(i)
        \/ CliUpload(i)
        \/ CliQueuePrompt(i)
        \/ CliCompletion(i)

CliSpec == CliInit /\ [][CliNext]_vars

(***************************************************************************)
(* Batch calls that run at the same time.  /process and /reprocess start a *)
(* thread with its own event loop for every request, and every call of     *)
(* process_batch_with_live_updates works on the same application object.   *)
(* Each call has one item, named like the call.                            *)
(***************************************************************************)
NumCalls == 2
Calls == 1 .. NumCalls

\* Everything but the concurrent batch calls.
notCalls == << batchVars, outVars, tmplVars, frameVars, labelVars, reprVars, progVars,
              cliVars >>

\* The call is between its entry and its return.
CallRunning(c) == call_pc[c] \in {"dispatch", "check", "await"}

\* The flag is examined by call c.
Checked(c) == [call |-> c, pending |-> c \in stop_pending, seen |-> shared_stop]

\* /process or /reprocess: the thread enters process_batch_with_live_updates,
\* which clears the flag.
BatchRequest(c) ==
    /\ call_pc[c] = "idle"
    /\ shared_stop' = FALSE
    /\ call_pc' = [call_pc EXCEPT ![c] = "dispatch"]
    /\ actor' = c
    /\ UNCHANGED << task_pc, shared_ws, ws_state, shared_previews, stop_pending,
                    last_check >>
    /\ UNCHANGED notCalls

\* /stop while a batch call runs.
StopRequest ==
    /\ \E c \in Calls : CallRunning(c)
    /\ shared_stop' = TRUE
    /\ stop_pending' = stop_pending \cup {c \in Calls : CallRunning(c)}
    /\ actor' = 0
    /\ UNCHANGED << call_pc, task_pc, shared_ws, ws_state, shared_previews, last_check >>
    /\ UNCHANGED notCalls

\* The dispatch loop of call c: break on the flag, or the record and the
\* coroutine of its item.
DispatchItem(c) ==
    /\ call_pc[c] = "dispatch"
    /\ last_check' = Checked(c)
    /\ stop_pending' = stop_pending \ {c}
    /\ task_pc' = IF shared_stop THEN task_pc ELSE [task_pc EXCEPT ![c] = "run"]
    /\ call_pc' = [call_pc EXCEPT ![c] = "check"]
    /\ actor' = c
    /\ UNCHANGED << shared_stop, shared_ws, ws_state, shared_previews >>
    /\ UNCHANGED notCalls

\* Top of an iteration of the completion loop of call c: with the flag set
\* the cancellation branch raises (tasks holds coroutine objects).
CheckFlag(c) ==
    /\ call_pc[c] = "check"
    /\ task_pc[c] \in {"run", "done"}
    /\ last_check' = Checked(c)
    /\ stop_pending' = stop_pending \ {c}
    /\ call_pc' = [call_pc EXCEPT ![c] = IF shared_stop THEN "raised" ELSE "await"]
    /\ actor' = c
    /\ UNCHANGED << task_pc, shared_stop, shared_ws, ws_state, shared_previews >>
    /\ UNCHANGED notCalls

\* The routine of the item of call c opens its monitor.
OpenMonitor(c) ==
    /\ call_pc[c] = "await"
    /\ task_pc[c] = "run"
    /\ ws_state[c] = "none"
    /\ ws_state' = [ws_state EXCEPT ![c] = "open"]
    /\ shared_ws' = shared_ws \cup {c}
    /\ actor' = c
    /\ UNCHANGED << call_pc, task_pc, shared_stop, shared_previews, stop_pending,
                    last_check >>
    /\ UNCHANGED notCalls

\* The monitor of the item of call c writes a preview file.
PreviewFrame(c) ==
    /\ ws_state[c] = "open"
    /\ c \notin shared_previews
    /\ shared_previews' = shared_previews \cup {c}
    /\ actor' = c
    /\ UNCHANGED << call_pc, task_pc, shared_stop, shared_ws, ws_state, stop_pending,
                    last_check >>
    /\ UNCHANGED notCalls

\* The routine of the item of call c ends (completed, failed or in error):
\* it closes its own connection and removes its own preview.
TaskDone(c) ==
    /\ call_pc[c] = "await"
    /\ task_pc[c] = "run"
    /\ task_pc' = [task_pc EXCEPT ![c] = "done"]
    /\ ws_state' = IF c \in shared_ws THEN [ws_state EXCEPT ![c] = "closed"] ELSE ws_state
    /\ shared_ws' = shared_ws \ {c}
    /\ shared_previews' = shared_previews \ {c}
    /\ actor' = c
    /\ UNCHANGED << call_pc, shared_stop, stop_pending, last_check >>
    /\ UNCHANGED notCalls

\* result_item = await task_future
AwaitTask(c) ==
    /\ call_pc[c] = "await"
    /\ task_pc[c] = "done"
    /\ task_pc' = [task_pc EXCEPT ![c] = "consumed"]
    /\ call_pc' = [call_pc EXCEPT ![c] = "check"]
    /\ actor' = c
    /\ UNCHANGED << shared_stop, shared_ws, ws_state, shared_previews, stop_pending,
                    last_check >>
    /\ UNCHANGED notCalls

\* The completion loop of call c is exhausted: every connection of
\* self.ws_connections is closed, the registry and the previews are cleared.
CallCleanup(c) ==
    /\ call_pc[c] = "check"
    /\ task_pc[c] \in {"none", "consumed"}
    /\ ws_state' = [d \in Calls |-> IF d \in shared_ws THEN "closed" ELSE ws_state[d]]
    /\ shared_ws' = {}
    /\ shared_previews' = {}
    /\ call_pc' = [call_pc EXCEPT ![c] = "returned"]
    /\ actor' = c
    /\ UNCHANGED << task_pc, shared_stop, stop_pending, last_check >>
    /\ UNCHANGED notCalls

CallsInit ==
    /\ InitBatch
    /\ orchestrator = "ready"
    /\ num_gpus = MaxGpus
    /\ batch_size = NumItems
    /\ InitTemplate
    /\ InitFrames
    /\ InitManager
    /\ InitRequests
    /\ InitProgress
    /\ InitCli
    /\ call_pc = [c \in Calls |-> "idle"]
    /\ task_pc = [c \in Calls |-> "none"]
    /\ shared_stop = FALSE
    /\ shared_ws = {}
    /\ ws_state = [c \in Calls |-> "none"]
    /\ shared_previews = {}
    /\ stop_pending = {}
    /\ last_check = NoCheck
    /\ actor = 0

CallsNext ==
    \/ StopRequest
    \/ \E c \in Calls :
          \/ BatchRequest(c)
          \/ DispatchItem(c)
          \/ CheckFlag(c)
          \/ OpenMonitor(c)
          \/ PreviewFrame(c)
          \/ TaskDone(c)
          \/ AwaitTask(c)
          \/ CallCleanup(c)

CallsSpec == CallsInit /\ [][CallsNext]_vars

(***************************************************************************)
(* Properties.                                                             *)
(***************************************************************************)
StatusOf(i) == processing_status[i].status
Had(i, s) == \E k \in 1 .. Len(trace[i]) : trace[i][k] = s
Terminal == {"completed", "failed", "cancelled"}
NonTerminal == {"queued", "uploading", "submitted", "processing"}
Occurrences(seq, x) == Cardinality({k \in 1 .. Len(seq) : seq[k] = x})

\* C1 (as claimed): once the completion loop has observed the stop flag, every
\* item that has a status record and had not reached a terminal state has
\* status 'cancelled'.
C1_StopCancelsUnfinished ==
    stop_seen => \A i \in Items : StatusOf(i) \in Terminal \cup {"none"}

\* C2 (as claimed): once the completion loop has observed the stop flag, no
\* streaming connection remains open and ws_connections is empty.
C2_StopClosesConnections ==
    stop_seen => /\ ws_connections = {}
                 /\ \A i \in Items : wsThread[i] # "running"

\* C3 (as claimed): once the completion loop has observed the stop flag, the
\* batch call returns, and returns exactly the results collected so far, each
\* the result of an item that completed.
C3_StopReturnsCollected ==
    stop_seen => /\ bpc = "returned"
                 /\ retval = all_results
                 /\ \A k \in 1 .. Len(retval) : Had(retval[k], "completed")

\* C4 (as claimed): a status that is completed, failed or cancelled is never
\* changed by any later step.
C4_TerminalIsFinal ==
    [][\A i \in Items : StatusOf(i) \in Terminal => StatusOf(i)' = StatusOf(i)]_vars

\* C5 (as claimed): every status is one of the seven states, and every change
\* of a status follows queued -> uploading -> submitted -> processing ->
\* {completed, failed, cancelled}, or leads from a non-terminal state to
\* failed or cancelled.
AllowedChanges ==
    {<<"queued", "uploading">>, <<"uploading", "submitted">>,
     <<"submitted", "processing">>, <<"processing", "completed">>}
    \cup (NonTerminal \X {"failed", "cancelled"})
C5_StateMachine ==
    \A i \in Items :
        /\ StatusOf(i) \in NonTerminal \cup Terminal \cup {"none"}
        /\ \A k \in 1 .. (Len(trace[i]) - 1) :
               <<trace[i][k], trace[i][k + 1]>> \in AllowedChanges

\* C6: every dispatched item at position i of the list is assigned the worker
\* i mod P, P the pool size.
C6_RoundRobin ==
    \A i \in Items : ipc[i] # "none" => processing_status[i].gpu = i % num_gpus
C6_Witness ==
    /\ num_gpus < NumItems
    /\ \A i \in Items : ipc[i] # "none"

\* C7: the failure of an item never aborts the batch: the batch call ends
\* with an exception only through the stop branch, and when it returns after
\* dispatching, the routine of every task has run to its end and recorded
\* its outcome.
C7_FailureNeverAborts ==
    /\ bpc = "raised" => stop_seen
    /\ (bpc = "returned" /\ orchestrator = "ready") =>
           \A i \in Items : i < ntasks =>
               /\ ipc[i] = "finished"
               /\ Had(i, "completed") \/ Had(i, "failed") \/ Had(i, "error")
C7_Witness ==
    /\ bpc = "returned"
    /\ \E i, j \in Items : /\ "prompt exception" \in io[i]
                           /\ "outputs written" \in io[j]
                           /\ j \in results_cache

\* C8 (as claimed): when the batch call returns, the returned sequence and
\* the results cache hold exactly one result for every item that reached
\* completed and none for any other, and the status record of an item that
\* failed still shows the failure.
C8_ResultsAtReturn ==
    bpc = "returned" =>
        \A i \in Items :
            /\ i \in results_cache <=> Had(i, "completed")
            /\ Occurrences(retval, i) = IF Had(i, "completed") THEN 1 ELSE 0
            /\ (Had(i, "failed") \/ Had(i, "error")) =>
                   StatusOf(i) \in {"failed", "error"}

\* C9: an item whose health probe failed went from queued directly to
\* failed, and no upload, submission or streaming connection was attempted
\* for it.
C9_HealthFailureShortCircuits ==
    \A i \in Items : "health failed" \in io[i] =>
        /\ trace[i] = <<"queued", "failed">>
        /\ StatusOf(i) = "failed"
        /\ io[i] = {"GET /system_stats", "health failed"}
        /\ wsThread[i] = "none"
        /\ i \notin ws_connections
C9_Witness ==
    /\ bpc = "returned"
    /\ \E i \in Items : "health failed" \in io[i]

C11_WorkerErrorRecorded ==
    \A i \in Items : "job error" \in io[i] =>
        /\ Had(i, "failed")
        /\ processing_status[i].error # ""
        /\ ipc[i] = "finished"

\* C12 (as claimed): every status record that shows a failure carries a
\* non-empty error message.
C12_FailureHasMessage ==
    \A i \in Items : StatusOf(i) \in {"failed", "error"} =>
        processing_status[i].error # ""

\* C13: when the pool cannot be initialized, the call returns at once with an
\* empty sequence, every item of the batch failed with the one message and
\* no request made for it; and an item is failed without a request of its own
\* only in that case.
C13_InitFailureFailsBatch ==
    /\ (orchestrator = "none" /\ bpc # "idle") =>
           /\ bpc = "returned"
           /\ retval = << >>
           /\ results_cache = {}
           /\ \A i \in Batch : /\ processing_status[i] =
                                    [status |-> "failed", gpu |-> -1, error |-> MsgInit]
                               /\ trace[i] = << "failed" >>
                               /\ io[i] = {}
                               /\ ipc[i] = "none"
    /\ \A i \in Items : (Had(i, "failed") /\ io[i] = {}) => orchestrator = "none"
C13_Witness ==
    /\ orchestrator = "none"
    /\ bpc = "returned"
    /\ batch_size = NumItems

C18_StepsGated ==
    \A i \in Items :
        /\ "POST /upload/image" \in io[i] => "health ok" \in io[i]
        /\ "POST /prompt" \in io[i] => "upload ok" \in io[i]
        /\ "GET /history" \in io[i] => "prompt accepted" \in io[i]
        /\ "GET /view" \in io[i] => "job completed" \in io[i]
        /\ "outputs written" \in io[i] => "job completed" \in io[i]
C18_Witness ==
    \E i \in Items : "outputs written" \in io[i] /\ i \in results_cache

\* C19 (as claimed): after an item's streaming connection has been torn down
\* (its monitor has ended with on_close), the item has no entry in the
\* active-connections registry and no preview file written for it remains.
C19_TeardownReleases ==
    \A i \in Items : wsThread[i] = "closed" =>
        /\ i \notin ws_connections
        /\ \A t \in 0 .. MaxClock : << i, t >> \notin temp_files

\* C20: no removal from the active-connections map raises, and over per-item
\* cleanup, on_close and batch-level cleanup together at most one entry is
\* removed for an item.
C20_CloseIdempotent ==
    /\ ~raised
    /\ \A i \in Items : removed[i] <= 1
C20_Witness ==
    \E i \in Items :
        /\ ipc[i] = "finished"
        /\ wsThread[i] = "closed"
        /\ bpc = "returned"
        /\ removed[i] = 1

\* C15 (as claimed): the result of a completed item holds, with
\* save_unrefined false, only refined artifacts and, with save_unrefined
\* true, an artifact of every role the worker produced.
C15_RolesRetained ==
    job.state = "completed" =>
        /\ ~job.save_unrefined =>
               \A k \in 1 .. Len(output_files) : output_files[k].role = "refined"
        /\ job.save_unrefined =>
               \A r \in job.produced :
                   \E k \in 1 .. Len(output_files) : output_files[k].role = r

\* C16 (as claimed): no write to the output directory replaces or changes a
\* file that is there.
C16_NeverOverwrites ==
    [][\A f \in disk : f \in disk']_vars

\* C17 (as claimed): the status of a polled item leaves 'processing' only
\* because the worker reported completion or an error, never because of the
\* time elapsed or the polls made.
C17_NoPollTimeout ==
    (poller.app # "none" /\ poller.status # "processing") =>
        poller.cause \in {"worker completed", "worker error"}

RoutineWrites(i) == ipc[i] \in {"health", "upload", "post", "poll", "download"}
\* The monitor thread of item i is running and writes the item's status entry.
MonitorWrites(i) == wsThread[i] \in {"running", "closing"}

\* C28 (as claimed): no status entry has two running writers at a time.
C28_SingleWriter ==
    \A i \in Items : ~(RoutineWrites(i) /\ MonitorWrites(i))

\* C29: a flag check that finds the flag set while tasks remain never goes on
\* to await another task, and results are added (to the result sequence and
\* the cache) only by the completion loop, one per awaited task; so after a
\* stop request at most one further result is added.
C29_StopBetweenCompletions ==
    [][ /\ (stop_processing /\ bpc = "check" /\ completed_count < ntasks) =>
               bpc' \in {"check", "raised"}
        /\ (all_results' # all_results \/ results_cache' # results_cache) =>
               /\ bpc = "await" /\ bpc' = "check"
               /\ Len(all_results') = Len(all_results) + 1
               /\ Cardinality(results_cache') <= Cardinality(results_cache) + 1
      ]_vars
C29_Witness ==
    /\ stop_processing
    /\ bpc = "await"
    /\ doneQueue # << >>
    /\ Head(doneQueue).ok
    /\ \E i \in Items : ipc[i] \in {"post", "poll", "download"}

RoleFieldReset(node, n, x) ==
    CASE n = "1"  -> [node EXCEPT !.image = x.image]
      [] n = "10" -> [node EXCEPT !.text = x.text]
      [] n = "15" -> [node EXCEPT !.text = x.text]
      [] n = "12" -> [node EXCEPT !.noise_seed = x.noise_seed]
      [] n = "46" -> [node EXCEPT !.seed = x.seed]
      [] OTHER    -> node
DiffersOnlyInRoleFields(c, w) ==
    /\ DOMAIN c = DOMAIN w
    /\ \A n \in DOMAIN w : RoleFieldReset(c[n], n, w[n]) = w[n]

\* C21: building a job document leaves the template as it was, and every
\* document posted has the template's nodes, each equal to the template's
\* but for the rewritten field of a well-known node.
C21_TemplateNeverMutated ==
    [][ /\ workflow' = workflow
        /\ \A p \in payloads' : DiffersOnlyInRoleFields(p.prompt, workflow')
      ]_vars
C21_Witness ==
    \E p, q \in payloads :
        /\ p.positive # q.positive
        /\ p.image # q.image
        /\ p.prompt # q.prompt
        /\ p.prompt # workflow
        /\ {"1", "10"} \subseteq DOMAIN workflow

\* C22 (as claimed): in every document posted, the seed of the main sampler
\* and the seed of the detailer, where the node exists, are -1.
C22_SeedsAreFresh ==
    \A p \in payloads :
        /\ "12" \in DOMAIN p.prompt => p.prompt["12"].noise_seed = -1
        /\ "46" \in DOMAIN p.prompt => p.prompt["46"].seed = -1

\* C24: a binary message shorter than 8 bytes parses to (None, None) and
\* changes nothing; one whose big-endian type is not 1 changes nothing; one
\* of type 1 whose payload is an image makes the item's preview pointer the
\* preview file written for it at that moment.
C24_BinaryFrames ==
    [][ LET data == message'.data
            i == message'.item
        IN /\ Len(data) < 8 =>
                 /\ parse_comfyui_binary_message(data).none
                 /\ UNCHANGED << preview_images, temp_files, now, processing_status >>
           /\ (Len(data) >= 8 /\ BigEndian32(SubSeq(data, 1, 4)) # 1) =>
                 UNCHANGED << preview_images, temp_files, now, processing_status >>
           /\ (Len(data) >= 8 /\ BigEndian32(SubSeq(data, 1, 4)) = 1
                 /\ SubSeq(data, 9, Len(data)) \in ValidImages) =>
                 /\ preview_images'[i] = FilePreview(now')
                 /\ << i, now' >> \in temp_files'
      ]_vars
C24_Witness ==
    /\ message.item \in Items
    /\ Len(message.data) >= 8
    /\ BigEndian32(SubSeq(message.data, 1, 4)) = 1
    /\ preview_images[message.item].kind = "file"
    /\ \E j \in Items : j # message.item /\ preview_images[j].kind = "none"

\* The candidates of the prompt roles: the POSITIVE-titled nodes, those whose
\* text holds a negative keyword and those whose text holds none.
Candidates == Titled(current_workflow_data, "POSITIVE")
WithKeyword ==
    {Candidates[k] : k \in {j \in 1 .. Len(Candidates) :
        is_negative(current_workflow_data[Position(Candidates[j])].text)}}
WithoutKeyword == {Candidates[k] : k \in 1 .. Len(Candidates)} \ WithKeyword

\* C26: with several candidates for the prompt roles, the negative prompt
\* holder is a candidate whose text has a negative keyword and the positive
\* prompt holder another candidate, one without a keyword, when there are
\* such candidates; with no keyword at all the first candidate is the positive
\* holder and the negative holder is among the remaining ones.
C26_KeywordResolution ==
    (wm_pc # "loaded" /\ Len(Candidates) > 1) =>
        LET pos == node_mappings.positive_prompt
            neg == node_mappings.negative_prompt
        IN /\ pos.kind = "id" /\ neg.kind = "id"
           /\ pos.id # neg.id
           /\ WithKeyword # {} => neg.id \in WithKeyword
           /\ WithoutKeyword # {} => pos.id \in WithoutKeyword
           /\ WithKeyword = {} =>
                 /\ pos.id = Candidates[1]
                 /\ neg.id \in {Candidates[k] : k \in 2 .. Len(Candidates)}

\* C27: instantiating a job from a template that lacks role nodes raises no
\* error, and every node that is not the node of a role stays as in the
\* template.
C27_AbsentRolesSkipped ==
    current_workflow_data # << >> =>
    /\ wm_raised = ""
    /\ wm_pc = "done" =>
          \A k \in 1 .. Len(current_workflow_data) :
              current_workflow_data[k].title = "Note" =>
                  workflow_copy[k] = current_workflow_data[k]

\* C23: marking an item that has a result in the results cache, also after
\* the batch that produced the result has finished, puts the result's input
\* in the queue of /reprocess, and the item /reprocess makes of it has an id
\* that no other item has.
C23_MarkedResultRequeued ==
    /\ marked.cached => marked.status = "success"
    /\ \A it \in running.items :
          it.image_id \in running.pending => it.image_id \notin DOMAIN result_input_path
    /\ \A a, b \in running.items : a.image_id = b.image_id => a = b

\* C38: for a template with exactly one node titled POSITIVE and exactly one
\* titled NEGATIVE, the positive prompt role is the former and the negative
\* prompt role the latter, and update_prompts rewrites the text of both.
C38_TitledPromptsResolved ==
    LET positives == Titled(current_workflow_data, "POSITIVE")
        negatives == Titled(current_workflow_data, "NEGATIVE")
    IN (Len(positives) = 1 /\ Len(negatives) = 1 /\ wm_pc # "loaded") =>
          /\ node_mappings.positive_prompt = NodeId(positives[1])
          /\ node_mappings.negative_prompt = NodeId(negatives[1])
          /\ wm_pc = "done" =>
                /\ workflow_copy[Position(positives[1])].text = << "d", "o", "g" >>
                /\ workflow_copy[Position(negatives[1])].text = << "d", "i", "m" >>

\* C31: the progress of an item is always an integer from 0 to 100, whatever
\* counters the polls return and whatever progress events the monitor gets.
C31_ProgressInRange == progress \in 0 .. 100

\* C32: a poll that gets no answer, no entry of the job, or an entry that is
\* neither completed nor in error and has no counters leaves status and
\* progress as they were, and the routine sleeps and then polls again.
C32_FruitlessPollChangesNothing ==
    [][ /\ (prog_pc = "poll" /\ prog_pc' # "poll"
              /\ last_poll'.kind \in {"failure", "no entry", "pending"}) =>
                 /\ prog_status' = prog_status
                 /\ progress' = progress
                 /\ prog_pc' = "sleep"
        /\ (prog_pc = "sleep" /\ prog_pc' # "sleep") => prog_pc' = "poll"
      ]_vars
C32_Witness ==
    /\ last_poll.kind = "failure"
    /\ prog_pc = "poll"
    /\ prog_status = "processing"
    /\ progress = PollProgress(1, 2)

\* C39: in process_batch_async never more than max_concurrent images are
\* between the start of their upload and their result, however many images
\* are submitted.
C39_AtMostMaxConcurrent == Cardinality(InFlight) <= max_concurrent
C39_Witness ==
    /\ max_concurrent < NumImages
    /\ Cardinality(InFlight) = max_concurrent
    /\ \E i \in Images : cli_pc[i] = "created"
    /\ \E i \in Images : cli_pc[i] = "completed"

\* C33: after the batch call has ended, by return or by stop, every item of
\* the submitted list has a status record.
C33_EveryItemHasRecord ==
    bpc \in {"returned", "raised"} =>
        \A i \in Batch : processing_status[i].status # "none"

\* C34: after the batch call has ended, by return or by stop, an item of the
\* batch has status completed exactly if it has a result in the results cache.
C34_CompletedIffCached ==
    bpc \in {"returned", "raised"} =>
        \A i \in Batch :
            processing_status[i].status = "completed" <=> i \in results_cache

\* C35: a stop request made while a batch call runs is seen by that call at
\* its next check of the flag, even if another batch call starts in between.
C35_StopNeverLost == last_check.pending => last_check.seen

\* C36: a step of one batch call (the end of its item, its final cleanup, its
\* cancellation) never closes the connection, drops the registry entry or
\* removes the preview of the item of another call that is still running.
C36_OtherBatchUntouched ==
    [][ \A c \in Calls :
          (actor' # c /\ CallRunning(c)) =>
             /\ ws_state'[c] = ws_state[c]
             /\ (c \in shared_ws') = (c \in shared_ws)
             /\ (c \in shared_previews') = (c \in shared_previews)
      ]_vars

\* C37: with workers that answer every request and end every job, every
\* dispatched item eventually has a terminal status and the batch call
\* eventually returns.
C37_BatchTerminates ==
    /\ \A i \in Items :
          (processing_status[i].status = "queued") ~>
              (processing_status[i].status \in
                  {"completed", "failed", "error", "cancelled"})
    /\ (bpc = "dispatch") ~> (bpc = "returned")

====
